---- MODULE Spec2Model ----
(***************************************************************************)
(* Cover resolution and disk cache of bookstats (src/cover_cache.py).      *)
(*                                                                         *)
(* Strings are sequences of one-character strings, so that strip(),        *)
(* upper(), re.sub() and f-string formatting are computed, not assumed.    *)
(* The file system is a function from the paths of existing files to their *)
(* content (a sequence of bytes).  Every worker thread is a task whose     *)
(* steps are the file-system operations and HTTP requests of the code.     *)
(***************************************************************************)
EXTENDS Integers, Sequences, FiniteSets, TLC

(***************************************************************************)
(* Bounds of the model.                                                    *)
(***************************************************************************)
\* length of the image served by the remote cover endpoint
BodyLen == 2
\* longest raw identifier given to normalize_isbn on its own
MaxLen == 3
\* largest number of candidates given to choose_best_isbn on its own
MaxCands == 3
\* largest number of documents in one search response
MaxDocs == 2

(***************************************************************************)
(* Text helpers: str.strip, str.upper, re.sub, str(int).                   *)
(***************************************************************************)
Digits == {"0", "1", "2", "3", "4", "5", "6", "7", "8", "9"}

Whitespace == {" "}

\* a non-empty string is truthy in Python
Truthy(s) == s # <<>>

\* the value of an expression, computed once where it is bound
Only(S) == CHOOSE x \in S : TRUE

\* str.strip(): from the first to the last character that is not white space
Strip(s) ==
    Only({ LET keep == {i \in 1..Len(v) : v[i] \notin Whitespace}
           IN  IF keep = {} THEN <<>>
               ELSE SubSeq(v, CHOOSE i \in keep : \A j \in keep : i <= j,
                              CHOOSE i \in keep : \A j \in keep : i >= j)
           : v \in {s} })

UpperChar(c) ==
    CASE c = "x" -> "X"
      [] c = "a" -> "A"
      [] c = "l" -> "L"
      [] c = "m" -> "M"
      [] c = "s" -> "S"
      [] OTHER -> c

Upper(s) == Only({ [i \in 1..Len(v) |-> UpperChar(v[i])] : v \in {s} })

\* str.lower()
LowerChar(c) ==
    CASE c = "D" -> "d"
      [] c = "F" -> "f"
      [] c = "H" -> "h"
      [] OTHER -> c

Lower(s) == Only({ [i \in 1..Len(v) |-> LowerChar(v[i])] : v \in {s} })

IsIsbnChar(c) == c \in Digits \cup {"X"}

\* the pattern matching every character: nothing is removed
KeepAllChars(s) == s

\* re.sub(r"[^0-9X]", "", s)
KeepIsbnChars(s) == SelectSeq(s, IsIsbnChar)

DigitChar(d) ==
    CASE d = 0 -> "0" [] d = 1 -> "1" [] d = 2 -> "2" [] d = 3 -> "3"
      [] d = 4 -> "4" [] d = 5 -> "5" [] d = 6 -> "6" [] d = 7 -> "7"
      [] d = 8 -> "8" [] d = 9 -> "9"

RECURSIVE NatToStr(_)
NatToStr(n) ==
    IF n < 10 THEN <<DigitChar(n)>>
    ELSE NatToStr(n \div 10) \o <<DigitChar(n % 10)>>

\* str(n) / f"{n}" of a Python int
IntToStr(n) == IF n < 0 THEN <<"-">> \o NatToStr(0 - n) ELSE NatToStr(n)

StartsWith(s, p) ==
    \E v \in {s} : Len(v) >= Len(p) /\ SubSeq(v, 1, Len(p)) = p

(***************************************************************************)
(* Identity normalizer.                                                    *)
(***************************************************************************)
normalize_isbn(isbn) ==
    Only({ IF ~Truthy(v) THEN <<>> ELSE KeepIsbnChars(Upper(Strip(v))) : v \in {isbn} })

HasIsbnLength(c) == Len(c) \in {10, 13}

\* [normalize_isbn(c) for c in candidates if c], then the 10/13 filter
Cleaned(candidates) ==
    LET given == SelectSeq(candidates, Truthy)
    IN  SelectSeq([i \in 1..Len(given) |-> normalize_isbn(given[i])], HasIsbnLength)

IsIsbn13(c) ==
    Len(c) = 13 /\ (StartsWith(c, <<"9", "7", "8">>) \/ StartsWith(c, <<"9", "7", "9">>))

\* the preference for ISBN-13 left out
FirstIsbn13_None(cleaned) == <<>>

\* the first 13-digit 978/979 candidate, "" if there is none
FirstIsbn13(cleaned) ==
    LET modern == SelectSeq(cleaned, IsIsbn13)
    IN  IF modern = <<>> THEN <<>> ELSE modern[1]

choose_best_isbn(candidates) ==
    LET cleaned == Cleaned(candidates)
    IN  IF cleaned = <<>> THEN <<>>
        ELSE IF FirstIsbn13(cleaned) # <<>> THEN FirstIsbn13(cleaned)
        ELSE cleaned[1]

(***************************************************************************)
(* Cache paths and cover URLs.                                             *)
(***************************************************************************)
\* (size or "L").upper()
SizeClass(size) == Upper(IF Truthy(size) THEN size ELSE <<"L">>)

JpgSuffix == <<".", "j", "p", "g">>

cache_path_isbn(isbn, size) ==
    <<"i", "s", "b", "n", "_">> \o normalize_isbn(isbn) \o <<"_">>
        \o SizeClass(size) \o JpgSuffix

\* the cover id filed under the prefix of the identifiers
cache_path_coverid_IsbnPrefix(cover_id, size) ==
    <<"i", "s", "b", "n", "_">> \o IntToStr(cover_id) \o <<"_">>
        \o SizeClass(size) \o JpgSuffix

cache_path_coverid(cover_id, size) ==
    <<"o", "l", "i", "d", "_">> \o IntToStr(cover_id) \o <<"_">>
        \o SizeClass(size) \o JpgSuffix

\* "||".join((p or "").strip().lower() for p in parts)
Joined(title, author) ==
    Lower(Strip(title)) \o <<"|", "|">> \o Lower(Strip(author))

\* hashlib.sha1(...).hexdigest()[:16]: a digest of KeyLen hexadecimal
\* characters that depends on every character of the text and its place.
\* SHA-1 itself is not computed; like it, the digest maps some different
\* texts to one key
KeyLen == 16

HexChars ==
    <<"0", "1", "2", "3", "4", "5", "6", "7", "8", "9", "a", "b", "c", "d", "e", "f">>

CharCodes == <<" ", "|", "d", "e", "f", "h", "n", "u">>

CharCode(c) ==
    IF \E k \in 1..Len(CharCodes) : CharCodes[k] = c
    THEN CHOOSE k \in 1..Len(CharCodes) : CharCodes[k] = c
    ELSE 0

RECURSIVE Weight(_, _)
Weight(text, i) ==
    IF i = 0 THEN 0 ELSE (Weight(text, i - 1) * 3 + CharCode(text[i])) % 251

HexDigest(text) ==
    Only({ [k \in 1..KeyLen |-> HexChars[((w * k + k) % 16) + 1]] :
             w \in {Weight(text, Len(text))} })

_stable_hash_key(title, author) == HexDigest(Joined(title, author))

cache_path_query(title, author, size) ==
    <<"q", "_">> \o _stable_hash_key(title, author) \o <<"_">>
        \o SizeClass(size) \o JpgSuffix

\* a request to one of the remote endpoints: ep names the endpoint, id is
\* the part of the URL that identifies the resource
Url(ep, id, size) == [ep |-> ep, id |-> id, size |-> size]

\* the identifier sent to the cover-by-id endpoint
openlibrary_url_isbn_ById(isbn, size) ==
    Url("cover_id", normalize_isbn(isbn), SizeClass(size))

openlibrary_url_isbn(isbn, size) ==
    Url("cover_isbn", normalize_isbn(isbn), SizeClass(size))

openlibrary_url_coverid(cover_id, size) ==
    Url("cover_id", IntToStr(cover_id), SizeClass(size))

(***************************************************************************)
(* JSON values of the remote service.  A field keeps its Python type, so   *)
(* that isinstance() and truthiness tests are computed as the code does.   *)
(***************************************************************************)
NoInt == [isint |-> FALSE, n |-> 0]
IntVal(n) == [isint |-> TRUE, n |-> n]
NoStr == [isstr |-> FALSE, s |-> <<>>]
StrVal(s) == [isstr |-> TRUE, s |-> s]
NoList == [islist |-> FALSE, items |-> <<>>]
ListVal(xs) == [islist |-> TRUE, items |-> xs]

\* a search document: cover_i, isbn, key (work), edition_key
\* edition_key is a list of strings, a single string (kind "str", kept as a
\* one-element list) or absent
NoKeys == [kind |-> "none", items |-> <<>>]
KeyList(xs) == [kind |-> "list", items |-> xs]
KeyStr(x) == [kind |-> "str", items |-> <<x>>]

Doc(cover_i, isbn, key, edition_key) ==
    [isdict |-> TRUE, cover_i |-> cover_i, isbn |-> isbn, key |-> key,
     edition_key |-> edition_key]

\* what the searches return for "nothing found"
NoDoc == [isdict |-> FALSE, cover_i |-> NoInt, isbn |-> NoList, key |-> NoStr,
          edition_key |-> NoKeys]

Isbn13Req == <<"9", "7", "8", "0", "1", "4", "0", "4", "4", "9", "1", "3", "6">>
Isbn10Doc == <<"0", "3", "0", "6", "4", "0", "6", "1", "5", "2">>
Isbn13Doc == <<"9", "7", "9", "0", "3", "0", "6", "4", "0", "6", "1", "5", "7">>
WorkKey == <<"/", "w", "o", "r", "k", "s", "/", "W">>
EditionKey == <<"E">>

\* identifiers a caller passes: none, punctuation only, a hyphenated
\* ISBN-13 with a lowercase letter in front, a short number
ReqIsbns ==
    { <<>>,
      <<"-", " ">>,
      <<" ", "9", "7", "8", "-", "0", "1", "4", "0", "4", "4", "9", "1", "3", "6">>,
      <<"1", "2", "x">> }

\* (title, author) pairs a caller passes
ReqQueries ==
    { <<<<>>, <<>>>>,
      <<<<" ">>, <<>>>>,
      <<<<"D", "u", "n", "e">>, <<" ", "F", "H">>>> }

ReqSizes == { <<"L">> }

DocKinds ==
    { Doc(IntVal(7), NoList, StrVal(WorkKey), NoKeys),
      Doc(IntVal(8), ListVal(<<Isbn10Doc, Isbn13Doc>>), StrVal(WorkKey),
          KeyList(<<EditionKey>>)),
      Doc(NoInt, ListVal(<<Isbn10Doc, <<"9", "7", "9", "-">> \o SubSeq(Isbn13Doc, 4, 13)>>),
          StrVal(WorkKey), KeyStr(EditionKey)),
      Doc(NoInt, ListVal(<<<<"1", "2", "3">>>>), NoStr, NoKeys),
      Doc(IntVal(-1), ListVal(<<Isbn13Doc>>), NoStr, NoKeys),
      Doc(IntVal(0), ListVal(<<Isbn10Doc>>), StrVal(WorkKey), NoKeys),
      Doc(NoInt, NoList, StrVal(WorkKey), KeyList(<<EditionKey>>)),
      NoDoc }

DocLists == UNION { [1..n -> DocKinds] : n \in 0..MaxDocs }

\* the image the cover endpoint serves
Body == [i \in 1..BodyLen |-> i]

\* what a cache file left by an earlier run holds
OldBody == <<0>>

\* responses of requests.get: exc = a transport exception (timeout, DNS,
\* connection); otherwise a status and a body
CoverResponses ==
    { [exc |-> TRUE, status_code |-> 0, content |-> <<>>],
      [exc |-> FALSE, status_code |-> 200, content |-> Body],
      [exc |-> FALSE, status_code |-> 200, content |-> <<>>],
      [exc |-> FALSE, status_code |-> 404, content |-> <<>>],
      [exc |-> FALSE, status_code |-> 500, content |-> Body] }

SearchResponses ==
    { [exc |-> TRUE, status_code |-> 0, json_ok |-> FALSE, docs |-> <<>>],
      [exc |-> FALSE, status_code |-> 500, json_ok |-> TRUE, docs |-> <<>>],
      [exc |-> FALSE, status_code |-> 200, json_ok |-> FALSE, docs |-> <<>>] }
    \cup { [exc |-> FALSE, status_code |-> 200, json_ok |-> TRUE, docs |-> d] :
             d \in DocLists }

\* a description field: absent, a string, or an object with "value"; each
\* endpoint serves its own text, with white space around it
NoDesc == [shape |-> "none", text |-> <<>>]

RecordText(ep) ==
    CASE ep = "edition_isbn" -> "A" [] ep = "work" -> "W" [] OTHER -> "E"

Descriptions(ep) ==
    { NoDesc,
      [shape |-> "str", text |-> <<" ", RecordText(ep)>>],
      [shape |-> "dict", text |-> <<RecordText(ep), " ">>],
      [shape |-> "str", text |-> <<" ">>] }

\* edition and work records: a description and (editions) works[0].key
RecordResponses(ep) ==
    { [exc |-> TRUE, status_code |-> 0, json_ok |-> FALSE, description |-> NoDesc, works |-> NoStr],
      [exc |-> FALSE, status_code |-> 404, json_ok |-> TRUE, description |-> NoDesc, works |-> NoStr],
      [exc |-> FALSE, status_code |-> 200, json_ok |-> FALSE, description |-> NoDesc, works |-> NoStr] }
    \cup { [exc |-> FALSE, status_code |-> 200, json_ok |-> TRUE, description |-> d, works |-> w] :
             d \in Descriptions(ep), w \in {NoStr, StrVal(WorkKey)} }

(***************************************************************************)
(* Search: the choice of the best document.                                *)
(***************************************************************************)
\* what _search_openlibrary_best returns: None, (cover_id, "") or (None, isbn)
NotFound == [found |-> FALSE, cover_id |-> NoInt, isbn |-> <<>>]

HasCoverBest(d) == d.isdict /\ d.cover_i.isint /\ d.cover_i.n > 0

\* d.get("cover_i") is truthy
HasCoverExtras(d) == d.isdict /\ d.cover_i.isint /\ d.cover_i.n # 0

HasIsbns(d) == d.isdict /\ d.isbn.islist /\ d.isbn.items # <<>>

\* first loop, line 248-253
FirstCoverBest(docs) ==
    LET with == SelectSeq(docs, HasCoverBest)
    IN  IF with = <<>> THEN NotFound
        ELSE [found |-> TRUE, cover_id |-> with[1].cover_i, isbn |-> <<>>]

HasBestIsbn(d) == HasIsbns(d) /\ Truthy(choose_best_isbn(d.isbn.items))

\* second loop, line 256-263
FirstIsbnBest(docs) ==
    LET with == SelectSeq(docs, HasBestIsbn)
    IN  IF with = <<>> THEN NotFound
        ELSE [found |-> TRUE, cover_id |-> NoInt,
              isbn |-> choose_best_isbn(with[1].isbn.items)]

\* the parsing and the two loops of _search_openlibrary_best
SearchBest(r) ==
    IF r.exc \/ r.status_code # 200 \/ ~r.json_ok THEN NotFound
    ELSE IF FirstCoverBest(r.docs).found THEN FirstCoverBest(r.docs)
    ELSE FirstIsbnBest(r.docs)

\* first loop, line 302-306
FirstCoverExtras(docs) ==
    LET with == SelectSeq(docs, HasCoverExtras)
    IN  IF with = <<>> THEN NoDoc ELSE with[1]

\* second loop, line 309-314
FirstIsbnExtras(docs) ==
    LET with == SelectSeq(docs, HasIsbns)
    IN  IF with = <<>> THEN NoDoc ELSE with[1]

\* the parsing and the two loops of _search_openlibrary_best_extras
SearchExtras(r) ==
    IF r.exc \/ r.status_code # 200 \/ ~r.json_ok \/ r.docs = <<>> THEN NoDoc
    ELSE IF FirstCoverExtras(r.docs).isdict THEN FirstCoverExtras(r.docs)
    ELSE FirstIsbnExtras(r.docs)

\* the first cover reference that is a positive integer in a search
\* response, 0 if there is none: what the documents offered, kept to state
\* the properties of the choice
IsPositiveCover(d) == d.isdict /\ d.cover_i.isint /\ d.cover_i.n > 0

FirstPositive(docs) ==
    LET with == SelectSeq(docs, IsPositiveCover)
    IN  IF with = <<>> THEN 0 ELSE with[1].cover_i.n

FirstPositiveCover(r) ==
    IF r.exc \/ r.status_code # 200 \/ ~r.json_ok THEN 0 ELSE FirstPositive(r.docs)

\* the identifier list of the first document that exposes a non-empty one,
\* when the response holds no document with a numeric cover reference
HasNumericCover(d) == d.isdict /\ d.cover_i.isint

FirstIdentifiers(docs) ==
    LET with == SelectSeq(docs, HasIsbns)
    IN  IF SelectSeq(docs, HasNumericCover) # <<>> \/ with = <<>> THEN NoList
        ELSE with[1].isbn

FirstIdentifierList(r) ==
    IF r.exc \/ r.status_code # 200 \/ ~r.json_ok THEN NoList ELSE FirstIdentifiers(r.docs)

\* the early return left out
SearchNeverSkipped(title, author) == FALSE

\* both searches return None without a request when the stripped title and
\* author are empty
SearchSkipped(title, author) == ~Truthy(Strip(title)) /\ ~Truthy(Strip(author))

(***************************************************************************)
(* Descriptions.                                                           *)
(***************************************************************************)
\* a description field as a trimmed string: str, or dict with a str value
DescText(desc) ==
    IF desc.shape \in {"str", "dict"} THEN Strip(desc.text) ELSE <<>>

\* _fetch_work_description and _fetch_edition_description after the request
RecordDescription(r) ==
    IF r.exc \/ r.status_code # 200 \/ ~r.json_ok THEN <<>>
    ELSE DescText(r.description)

\* _fetch_description_by_isbn after the edition request: a description
\* (follow = FALSE) or the work key to follow
IsbnDescription(r) ==
    IF r.exc \/ r.status_code # 200 \/ ~r.json_ok
    THEN [follow |-> FALSE, text |-> <<>>, wk |-> <<>>]
    ELSE IF r.description.shape \in {"str", "dict"}
    THEN [follow |-> FALSE, text |-> Strip(r.description.text), wk |-> <<>>]
    ELSE IF r.works.isstr
    THEN [follow |-> TRUE, text |-> <<>>, wk |-> r.works.s]
    ELSE [follow |-> FALSE, text |-> <<>>, wk |-> <<>>]

\* wk and edk of get_cover_and_summary
DocWorkKey(doc) == IF doc.key.isstr THEN doc.key.s ELSE <<>>

DocEditionKey(doc) ==
    IF doc.edition_key.kind = "list" /\ doc.edition_key.items # <<>>
    THEN doc.edition_key.items[1]
    ELSE IF doc.edition_key.kind = "str" THEN doc.edition_key.items[1]
    ELSE <<>>

(***************************************************************************)
(* State.                                                                  *)
(***************************************************************************)
\* worker threads / calls in flight
NTasks == 2
Tasks == 1..NTasks

VARIABLES
    fs,     \* the cache directory: path of an existing file |-> its content
    fs0,    \* the cache directory when the requests were made
    req,    \* req[t]: the call made on task t, or NoReq
    pc,     \* pc[t]: where task t is in the code
    loc,    \* loc[t]: the local variables of task t
    net,    \* net[t]: the HTTP requests task t has issued, in order
    cb,     \* cb[t]: the results delivered to on_done of task t, in order
    web,    \* the remote service: what it serves, where that is fixed
    app,    \* the application object: settings, loaded file, Book objects
    disk,   \* the library file (JSON) of the application and its backup
    ui      \* the widgets, the callbacks scheduled on the UI thread

vars == <<fs, fs0, req, pc, loc, net, cb, web, app, disk, ui>>

\* what the cover cache never touches
outside == <<web, app, disk, ui>>

\* the values of these variables where the application is not running
NoWeb == [fixed |-> FALSE]
NoApp == [auto_fill_summary |-> FALSE, current_path |-> FALSE, books |-> <<>>,
          _random_current_book |-> 0]
NoDisk == [json |-> [ok |-> FALSE, recs |-> <<>>], bak |-> [exists |-> FALSE],
           copy |-> "none"]
\* the widgets before anything is shown: the cover label of the random-pick
\* panel and its details text, the callbacks scheduled with after(), the
\* book each on_done_extras closes over, the "Clear cover cache" handler
NoLabel == [text |-> "", image |-> <<>>]
NoDetails == [book |-> 0, summary |-> <<>>]

NoUi ==
    [label |-> NoLabel, details |-> NoDetails, after |-> <<>>,
     closure |-> [t \in Tasks |-> 0], clearing |-> "idle", listing |-> {}]

NoApplication == web = NoWeb /\ app = NoApp /\ disk = NoDisk /\ ui = NoUi

NoUrl == Url("none", <<>>, <<>>)
NoCoverResponse == [exc |-> FALSE, status_code |-> 0, content |-> <<>>]
NoResult == [path |-> <<>>, summary |-> <<>>]

\* None is the empty string wherever the code only tests truthiness
NoReq ==
    [fn |-> "none", async |-> FALSE, isbn |-> <<>>, size |-> <<>>, title |-> <<>>,
     author |-> <<>>, force_refresh |-> FALSE, want_summary |-> FALSE,
     on_done |-> FALSE]

InitLoc ==
    [isbn |-> <<>>, title |-> <<>>, author |-> <<>>, depth |-> 0,
     safe_isbn |-> <<>>, site |-> "none", out_path |-> <<>>, url |-> NoUrl,
     dl_force |-> FALSE, allow_404 |-> FALSE, r |-> NoCoverResponse, pos |-> 0,
     io_error |-> FALSE,
     path |-> <<>>, isbn_summary |-> <<>>, summary |-> <<>>, wk |-> <<>>,
     desc_ret |-> "none", searched |-> FALSE, first_cover |-> 0,
     first_ids |-> NoList, doc |-> NoDoc,
     found |-> NotFound, best |-> <<>>, result |-> NoResult]

\* the calls: through a worker thread with a callback (fetch_async,
\* fetch_async_extras), as the GUI makes them, or get_cover_path directly
\* with force_refresh, which fetch_async cannot pass; get_cover_path has no
\* want_summary
Requests ==
    { q \in [fn : {"get_cover_path", "get_cover_and_summary"}, async : BOOLEAN,
             isbn : ReqIsbns, size : ReqSizes,
             title : {qa[1] : qa \in ReqQueries}, author : {qa[2] : qa \in ReqQueries},
             force_refresh : BOOLEAN, want_summary : BOOLEAN, on_done : BOOLEAN] :
        /\ <<q.title, q.author>> \in ReqQueries
        /\ q.on_done = q.async
        /\ (q.fn = "get_cover_path" => ~q.want_summary)
        /\ (q.fn = "get_cover_path" => (q.async <=> ~q.force_refresh))
        /\ (q.fn = "get_cover_and_summary" => q.async) }

\* the cache files earlier runs may have left: for the identifier of the
\* request, for a cover id and for an identifier of a search document.  Any
\* of them may hold an image; or one of them is the empty file that an
\* interrupted write leaves
CachePaths ==
    { cache_path_isbn(Isbn13Req, <<"L">>), cache_path_coverid(7, <<"L">>),
      cache_path_isbn(Isbn13Doc, <<"L">>) }

CacheStates ==
    { [p \in ps |-> OldBody] : ps \in SUBSET CachePaths }
    \cup { [p \in {e} |-> <<>>] : e \in CachePaths }

\* one call, on task 1
Init ==
    /\ fs \in CacheStates
    /\ fs0 = fs
    /\ \E q \in Requests :
          /\ req = [t \in Tasks |-> IF t = 1 THEN q ELSE NoReq]
          /\ loc = [t \in Tasks |->
                      IF t = 1 THEN [InitLoc EXCEPT !.isbn = q.isbn, !.title = q.title,
                                                    !.author = q.author]
                      ELSE InitLoc]
    /\ pc = [t \in Tasks |-> IF t = 1 THEN "start" ELSE "idle"]
    /\ net = [t \in Tasks |-> <<>>]
    /\ cb = [t \in Tasks |-> <<>>]
    /\ NoApplication

(***************************************************************************)
(* The cache check and _download_to.                                       *)
(***************************************************************************)
Exists(files, p) == p \in DOMAIN files

\* the size not looked at: every file that exists counts
NonEmptyOrZero(files, p) == TRUE

\* only a file that holds the whole image counts
NonEmptyComplete(files, p) == files[p] = Body

\* os.path.getsize(p) > 0, of a file that exists
NonEmpty(files, p) == Len(files[p]) > 0

\* the arguments the two orchestrators pass to _download_to
DownloadForce(q) == q.fn = "get_cover_and_summary" /\ q.force_refresh

DownloadAllow404(q) == q.fn = "get_cover_path"

\* the flag read with the wrong sense
SkipCheckNegated(force_refresh) == ~force_refresh

\* the check is skipped with force_refresh (short-circuit of `and`)
SkipCheck(force_refresh) == force_refresh

\* the file opened for appending: every write goes to the end of the file
WriteAppend(data, pos, byte) == Append(data, byte)

\* f.write at offset pos of a file opened "wb": a hole reads as zeros
WriteAt(data, pos, byte) ==
    [i \in 1..(IF Len(data) > pos THEN Len(data) ELSE pos + 1) |->
        IF i = pos + 1 THEN byte ELSE IF i <= Len(data) THEN data[i] ELSE 0]

\* the status of the response not looked at
ReceivedAnyStatus(r, allow_404) ==
    IF r.exc THEN "none"
    ELSE IF r.content # <<>> THEN "write"
    ELSE "none"

\* the request outside the try
ReceivedUncaught(r, allow_404) ==
    IF r.exc THEN "raise"
    ELSE IF allow_404 /\ r.status_code = 404 THEN "none"
    ELSE IF r.status_code = 200 /\ r.content # <<>> THEN "write"
    ELSE "none"

\* what _download_to does with the response of requests.get: "write" the
\* body, return "none", or "raise" (never: the try covers the whole body)
Received(r, allow_404) ==
    IF r.exc THEN "none"
    ELSE IF allow_404 /\ r.status_code = 404 THEN "none"
    ELSE IF r.status_code = 200 /\ r.content # <<>> THEN "write"
    ELSE "none"

Goto(t, label, l) ==
    /\ pc' = [pc EXCEPT ![t] = label]
    /\ loc' = [loc EXCEPT ![t] = l]

\* the call of _download_to at the current site
Download(t, l) ==
    Goto(t, "dl_exists", [l EXCEPT !.dl_force = DownloadForce(req[t]),
                                   !.allow_404 = DownloadAllow404(req[t]),
                                   !.r = NoCoverResponse, !.io_error = FALSE])

\* line 132-137 and 423-428: normalize, then the identifier's cache path
StartCall(t) ==
    /\ pc[t] = "start"
    /\ LET l == loc[t]
           safe == normalize_isbn(l.isbn)
       IN  IF Truthy(safe)
           THEN Goto(t, "outer_exists",
                     [l EXCEPT !.safe_isbn = safe, !.site = "isbn",
                               !.out_path = cache_path_isbn(safe, req[t].size),
                               !.url = openlibrary_url_isbn(safe, req[t].size)])
           ELSE Goto(t, "search", [l EXCEPT !.safe_isbn = safe])
    /\ UNCHANGED <<fs, fs0, req, net, cb, outside>>

\* (not force_refresh) and os.path.exists(out_path) ...
OuterExists(t) ==
    /\ pc[t] = "outer_exists"
    /\ LET l == loc[t]
       IN  IF SkipCheck(req[t].force_refresh) \/ ~Exists(fs, l.out_path)
           THEN Download(t, l)
           ELSE Goto(t, "outer_size", l)
    /\ UNCHANGED <<fs, fs0, req, net, cb, outside>>

\* ... and os.path.getsize(out_path) > 0: outside any try, so the OSError
\* of a file that has vanished leaves the function
OuterSize(t) ==
    /\ pc[t] = "outer_size"
    /\ LET l == loc[t]
       IN  IF ~Exists(fs, l.out_path) THEN Goto(t, "raised", l)
           ELSE IF NonEmpty(fs, l.out_path)
           THEN Goto(t, "after_dl", [l EXCEPT !.path = l.out_path])
           ELSE Download(t, l)
    /\ UNCHANGED <<fs, fs0, req, net, cb, outside>>

\* _download_to, line 194: the same check, inside the try
DlExists(t) ==
    /\ pc[t] = "dl_exists"
    /\ LET l == loc[t]
       IN  IF SkipCheck(l.dl_force) \/ ~Exists(fs, l.out_path)
           THEN Goto(t, "dl_get", l)
           ELSE Goto(t, "dl_size", l)
    /\ UNCHANGED <<fs, fs0, req, net, cb, outside>>

DlSize(t) ==
    /\ pc[t] = "dl_size"
    /\ LET l == loc[t]
       IN  IF ~Exists(fs, l.out_path)
           THEN Goto(t, "after_dl", [l EXCEPT !.path = <<>>])
           ELSE IF NonEmpty(fs, l.out_path)
           THEN Goto(t, "after_dl", [l EXCEPT !.path = l.out_path])
           ELSE Goto(t, "dl_get", l)
    /\ UNCHANGED <<fs, fs0, req, net, cb, outside>>

\* requests.get(url), line 197-204
DlGet(t) ==
    /\ pc[t] = "dl_get"
    /\ \E r \in CoverResponses :
          LET l == loc[t]
              todo == Received(r, l.allow_404)
          IN  CASE todo = "write" -> Goto(t, "dl_open", [l EXCEPT !.r = r])
                [] todo = "none" -> Goto(t, "after_dl", [l EXCEPT !.r = r, !.path = <<>>])
                [] OTHER -> Goto(t, "raised", l)
    /\ net' = [net EXCEPT ![t] = Append(@, loc[t].url)]
    /\ UNCHANGED <<fs, fs0, req, cb, outside>>

\* open(p, "wb") creates the file or truncates it
Truncate(files, p) ==
    [x \in DOMAIN files \cup {p} |-> IF x = p THEN <<>> ELSE files[x]]

\* open(out_path, "wb"), line 205: creates or truncates the file, or fails
DlOpen(t) ==
    /\ pc[t] = "dl_open"
    /\ \E ok \in BOOLEAN :
          /\ fs' = IF ok THEN Truncate(fs, loc[t].out_path) ELSE fs
          /\ IF ok
             THEN Goto(t, "dl_write", [loc[t] EXCEPT !.pos = 0])
             ELSE Goto(t, "after_dl", [loc[t] EXCEPT !.io_error = TRUE, !.path = <<>>])
    /\ UNCHANGED <<fs0, req, net, cb, outside>>

\* f.write(r.content), line 206: the bytes reach the file one after the
\* other; a write error leaves what was written
DlWrite(t) ==
    /\ pc[t] = "dl_write"
    /\ \E ok \in BOOLEAN :
          LET l == loc[t]
              p == l.out_path
          IN  /\ fs' = IF ok /\ Exists(fs, p)
                       THEN [fs EXCEPT ![p] = WriteAt(@, l.pos, l.r.content[l.pos + 1])]
                       ELSE fs
              /\ IF ~ok THEN Goto(t, "after_dl", [l EXCEPT !.io_error = TRUE, !.path = <<>>])
                 ELSE IF l.pos + 1 = Len(l.r.content)
                 THEN Goto(t, "after_dl", [l EXCEPT !.pos = l.pos + 1, !.path = p])
                 ELSE Goto(t, "dl_write", [l EXCEPT !.pos = l.pos + 1])
    /\ UNCHANGED <<fs0, req, net, cb, outside>>

(***************************************************************************)
(* The two orchestrators: get_cover_path and get_cover_and_summary.        *)
(***************************************************************************)
Return(t, l, path, summary) ==
    Goto(t, "returned", [l EXCEPT !.result = [path |-> path, summary |-> summary]])

\* the key as it appears in the URL of _fetch_work_description
WorkPath(work_key) ==
    LET key == Strip(work_key)
        k1 == IF StartsWith(key, <<"w", "o", "r", "k", "s", "/">>) THEN <<"/">> \o key ELSE key
    IN  IF StartsWith(k1, <<"/">>) THEN k1 ELSE <<"/", "w", "o", "r", "k", "s", "/">> \o k1

\* the key as it appears in the URL of _fetch_edition_description
EditionId(edition_key) ==
    LET key == Strip(edition_key)
        k1 == IF StartsWith(key, <<"b", "o", "o", "k", "s", "/">>) THEN SubSeq(key, 7, Len(key)) ELSE key
        k2 == IF StartsWith(k1, <<"/", "b", "o", "o", "k", "s", "/">>) THEN SubSeq(k1, 8, Len(k1)) ELSE k1
    IN  IF StartsWith(k2, <<"/">>) THEN SubSeq(k2, 2, Len(k2)) ELSE k2

\* the flag ignored
WantSummaryAlways(q) == TRUE

\* `if want_summary`, line 430, 436, 440 and 449
WantSummary(q) == q.want_summary

\* what follows the cache check and the download at each call site; the
\* response and the error of _download_to are its locals and end with it
AfterDownload(t) ==
    /\ pc[t] = "after_dl"
    /\ LET l == [loc[t] EXCEPT !.r = NoCoverResponse, !.io_error = FALSE]
           q == req[t]
       IN  IF q.fn = "get_cover_and_summary"
           THEN CASE l.site = "isbn" ->
                       IF Truthy(l.path)
                       THEN IF WantSummary(q)
                            THEN Goto(t, "desc_isbn", [l EXCEPT !.desc_ret = "ret"])
                            ELSE Return(t, l, l.path, <<>>)
                       ELSE IF WantSummary(q)
                            THEN Goto(t, "desc_isbn", [l EXCEPT !.desc_ret = "miss"])
                            ELSE Goto(t, "search", l)
                  [] l.site = "coverid" ->
                       IF Truthy(l.path) THEN Return(t, l, l.path, l.summary)
                       ELSE Goto(t, "doc_isbns", l)
                  [] OTHER -> Return(t, l, l.path, l.summary)
           ELSE CASE l.site = "isbn" ->
                       IF Truthy(l.path) THEN Return(t, l, l.path, <<>>)
                       ELSE Goto(t, "search", l)
                  [] OTHER -> Return(t, l, l.path, <<>>)
    /\ UNCHANGED <<fs, fs0, req, net, cb, outside>>

\* where the description found by identifier goes: into the result (cover
\* found), or into isbn_summary before the search (no cover)
Described(t, l, text) ==
    IF l.desc_ret = "ret" THEN Return(t, l, l.path, text)
    ELSE Goto(t, "search", [l EXCEPT !.isbn_summary = text])

\* _fetch_description_by_isbn: the edition record of the identifier
DescIsbn(t) ==
    /\ pc[t] = "desc_isbn"
    /\ \E r \in RecordResponses("edition_isbn") :
          LET l == loc[t]
              d == IsbnDescription(r)
          IN  IF d.follow THEN Goto(t, "desc_isbn_work", [l EXCEPT !.wk = d.wk])
              ELSE Described(t, l, d.text)
    /\ net' = [net EXCEPT ![t] = Append(@, Url("edition_isbn", normalize_isbn(loc[t].safe_isbn), <<>>))]
    /\ UNCHANGED <<fs, fs0, req, cb, outside>>

\* ... and the work record it refers to
DescIsbnWork(t) ==
    /\ pc[t] = "desc_isbn_work"
    /\ LET l == loc[t]
       IN  IF ~Truthy(l.wk)
           THEN /\ Described(t, l, <<>>)
                /\ net' = net
           ELSE /\ \E r \in RecordResponses("work") : Described(t, l, RecordDescription(r))
                /\ net' = [net EXCEPT ![t] = Append(@, Url("work", WorkPath(l.wk), <<>>))]
    /\ UNCHANGED <<fs, fs0, req, cb, outside>>

\* title and author passed on to the recursive call
RetryQuerySame(title, author) == <<title, author>>

\* the arguments of the recursive call of get_cover_path, line 165
RetryQuery(title, author) == <<<<>>, <<>>>>

\* line 144-165 and 444-448: the search and what it selects
Search(t) ==
    /\ pc[t] = "search"
    /\ LET l == loc[t]
           q == req[t]
       IN  IF q.fn = "get_cover_path"
           THEN IF (~Truthy(l.title) /\ ~Truthy(l.author)) \/ SearchSkipped(l.title, l.author)
                THEN /\ Return(t, l, <<>>, <<>>)
                     /\ net' = net
                ELSE /\ \E r \in SearchResponses :
                          LET found == SearchBest(r)
                              l1 == [l EXCEPT !.searched = TRUE, !.first_cover = FirstPositiveCover(r),
                                              !.first_ids = FirstIdentifierList(r), !.found = found]
                          IN  IF ~found.found THEN Return(t, l1, <<>>, <<>>)
                              ELSE IF found.cover_id.isint
                              THEN Goto(t, "outer_exists",
                                        [l1 EXCEPT !.site = "coverid",
                                                   !.out_path = cache_path_coverid(found.cover_id.n, q.size),
                                                   !.url = openlibrary_url_coverid(found.cover_id.n, q.size)])
                              ELSE IF Truthy(found.isbn)
                              THEN Goto(t, "start",
                                        [l1 EXCEPT !.isbn = found.isbn,
                                                   !.title = RetryQuery(l.title, l.author)[1],
                                                   !.author = RetryQuery(l.title, l.author)[2],
                                                   !.depth = l.depth + 1])
                              ELSE Return(t, l1, <<>>, <<>>)
                     /\ net' = [net EXCEPT ![t] = Append(@, Url("search", <<>>, <<>>))]
           ELSE IF SearchSkipped(l.title, l.author)
                THEN /\ Return(t, l, <<>>, l.isbn_summary)
                     /\ net' = net
                ELSE /\ \E r \in SearchResponses :
                          LET doc == SearchExtras(r)
                              l1 == [l EXCEPT !.searched = TRUE, !.first_cover = FirstPositiveCover(r),
                                              !.first_ids = FirstIdentifierList(r), !.doc = doc,
                                              !.summary = l.isbn_summary]
                          IN  IF ~doc.isdict THEN Return(t, l1, <<>>, l.isbn_summary)
                              ELSE IF WantSummary(q) THEN Goto(t, "desc_work", l1)
                              ELSE Goto(t, "cover_i", l1)
                     /\ net' = [net EXCEPT ![t] = Append(@, Url("search", <<>>, <<>>))]
    /\ UNCHANGED <<fs, fs0, req, cb, outside>>

\* line 457, left operand: _fetch_work_description(wk)
DescWork(t) ==
    /\ pc[t] = "desc_work"
    /\ LET l == loc[t]
           wk == DocWorkKey(l.doc)
       IN  IF ~Truthy(wk)
           THEN /\ Goto(t, "desc_edition", l)
                /\ net' = net
           ELSE /\ \E r \in RecordResponses("work") :
                      IF Truthy(RecordDescription(r))
                      THEN Goto(t, "cover_i", [l EXCEPT !.summary = RecordDescription(r)])
                      ELSE Goto(t, "desc_edition", l)
                /\ net' = [net EXCEPT ![t] = Append(@, Url("work", WorkPath(wk), <<>>))]
    /\ UNCHANGED <<fs, fs0, req, cb, outside>>

\* line 457, right operand: _fetch_edition_description(edk)
DescEdition(t) ==
    /\ pc[t] = "desc_edition"
    /\ LET l == loc[t]
           edk == DocEditionKey(l.doc)
       IN  IF ~Truthy(edk)
           THEN /\ Goto(t, "cover_i", [l EXCEPT !.summary = <<>>])
                /\ net' = net
           ELSE /\ \E r \in RecordResponses("edition") :
                      Goto(t, "cover_i", [l EXCEPT !.summary = RecordDescription(r)])
                /\ net' = [net EXCEPT ![t] = Append(@, Url("edition", EditionId(edk), <<>>))]
    /\ UNCHANGED <<fs, fs0, req, cb, outside>>

\* line 460-466: isinstance(cover_i, int)
TryCoverI(t) ==
    /\ pc[t] = "cover_i"
    /\ LET l == loc[t]
           cover_i == l.doc.cover_i
       IN  IF cover_i.isint
           THEN Goto(t, "outer_exists",
                     [l EXCEPT !.site = "coverid",
                               !.out_path = cache_path_coverid(cover_i.n, req[t].size),
                               !.url = openlibrary_url_coverid(cover_i.n, req[t].size)])
           ELSE Goto(t, "doc_isbns", l)
    /\ UNCHANGED <<fs, fs0, req, net, cb, outside>>

\* line 471-483: the identifiers of the selected document
TryDocIsbns(t) ==
    /\ pc[t] = "doc_isbns"
    /\ LET l == loc[t]
           isbns == l.doc.isbn
           best == choose_best_isbn(isbns.items)
       IN  IF isbns.islist /\ isbns.items # <<>> /\ Truthy(best)
           THEN Goto(t, "outer_exists",
                     [l EXCEPT !.site = "retry", !.best = best,
                               !.out_path = cache_path_isbn(best, req[t].size),
                               !.url = openlibrary_url_isbn(best, req[t].size)])
           ELSE Return(t, l, <<>>, l.summary)
    /\ UNCHANGED <<fs, fs0, req, net, cb, outside>>

(***************************************************************************)
(* fetch_async and fetch_async_extras: the worker thread.                  *)
(***************************************************************************)
\* the result delivered a second time
OnDoneTwice(delivered, result) == Append(Append(delivered, result), result)

\* on_done(result), once
OnDone(delivered, result) == Append(delivered, result)

Callback(t) ==
    /\ pc[t] = "returned"
    /\ req[t].async
    /\ cb' = [cb EXCEPT ![t] = IF req[t].on_done THEN OnDone(@, loc[t].result) ELSE @]
    /\ pc' = [pc EXCEPT ![t] = "done"]
    /\ UNCHANGED <<fs, fs0, req, loc, net, outside>>

Step(t) ==
    \/ StartCall(t)
    \/ OuterExists(t)
    \/ OuterSize(t)
    \/ DlExists(t)
    \/ DlSize(t)
    \/ DlGet(t)
    \/ DlOpen(t)
    \/ DlWrite(t)
    \/ AfterDownload(t)
    \/ DescIsbn(t)
    \/ DescIsbnWork(t)
    \/ Search(t)
    \/ DescWork(t)
    \/ DescEdition(t)
    \/ TryCoverI(t)
    \/ TryDocIsbns(t)
    \/ Callback(t)

Next == \E t \in Tasks : Step(t)

Spec == Init /\ [][Next]_vars

\* the requests the GUI dispatches to a worker (it never passes
\* force_refresh), against a cache that is empty or holds one file, an
\* image or the empty file of an interrupted write
InitAsync ==
    /\ Init
    /\ req[1].async /\ ~req[1].force_refresh
    /\ Cardinality(DOMAIN fs) <= 1

\* a worker that is scheduled keeps running, and every request returns or
\* times out
FairSpec == InitAsync /\ [][Next]_vars /\ \A t \in Tasks : WF_vars(Step(t))

\* requests dispatched together for one identifier that is not in the
\* cache: fetch_async_extras with a title, an author and want_summary on
\* the first worker, without them on the others
ConcInit ==
    /\ fs = [p \in {} |-> OldBody]
    /\ fs0 = fs
    /\ \E q \in Requests :
          /\ q.fn = "get_cover_and_summary" /\ ~q.force_refresh
          /\ normalize_isbn(q.isbn) = Isbn13Req
          /\ Truthy(q.title) /\ Truthy(q.author) /\ q.want_summary
          /\ req = [t \in Tasks |->
                      IF t = 1 THEN q
                      ELSE [q EXCEPT !.title = <<>>, !.author = <<>>,
                                     !.want_summary = FALSE]]
    /\ loc = [t \in Tasks |->
                [InitLoc EXCEPT !.isbn = req[t].isbn, !.title = req[t].title,
                                !.author = req[t].author]]
    /\ pc = [t \in Tasks |-> "start"]
    /\ net = [t \in Tasks |-> <<>>]
    /\ cb = [t \in Tasks |-> <<>>]
    /\ NoApplication

\* the workers run in any interleaving of their steps
ConcSpec == ConcInit /\ [][Next]_vars

(***************************************************************************)
(* The random-pick panel of the application (bookstats_gui.py): the books  *)
(* of the loaded file, the cover requests it dispatches and what it does   *)
(* with their results on the UI thread.                                    *)
(***************************************************************************)
\* books in the loaded file
NBooks == 2
BookIds == 1..NBooks

\* isbn, title and display_author of the books
BookIsbn(b) == IF b = 1 THEN <<" ">> \o Isbn13Req ELSE Isbn13Doc
BookTitle(b) == IF b = 1 THEN <<"D", "u", "n", "e">> ELSE <<"E", "d", "e", "n">>
BookAuthor(b) == <<"F", "H">>

\* not (s or "").strip()
Blank(s) == ~Truthy(Strip(s))

\* every summary is taken for blank
BlankAlways(s) == TRUE

\* the guard of line 1884 and 1908: the book or the record has no summary
NoSummaryYet(s) == Blank(s)

BookOf(summary, checked) == [summary |-> summary, summary_checked |-> checked]

\* parse_books, line 430-431
parse_books(recs) ==
    [b \in DOMAIN recs |-> BookOf(Strip(recs[b].summary), recs[b].summary_checked)]

\* summaries a record of the file may hold: none, white space, a summary
FileSummaries == { <<>>, <<" ">>, <<"S">> }

\* the files loaded: the first book in every state an earlier session may
\* have left it in, the others as a fresh export has them
Libraries ==
    {recs \in [BookIds -> [summary : FileSummaries, summary_checked : BOOLEAN]] :
        \A b \in BookIds \ {1} : ~recs[b].summary_checked /\ recs[b].summary # <<" ">>}

\* a backup left by an earlier session
OldBackup == [exists |-> TRUE, json |-> [ok |-> TRUE, recs |-> <<>>]]

\* shutil.copy2(path, backup), line 1894-1899 and 1933-1938: only when there
\* is no backup; it succeeds, or fails leaving nothing or a part of the
\* file, and the failure is ignored
CopyOutcomes == {"ok", "failed", "partial"}

Backup(d, copy) ==
    IF d.bak.exists THEN d
    ELSE CASE copy = "ok" -> [d EXCEPT !.bak = [exists |-> TRUE, json |-> d.json], !.copy = copy]
           [] copy = "partial" ->
                [d EXCEPT !.bak = [exists |-> TRUE, json |-> [ok |-> FALSE, recs |-> <<>>]],
                          !.copy = copy]
           [] OTHER -> [d EXCEPT !.copy = copy]

\* open(path, "w") and json.dump, line 1911-1912 and 1949-1950: the file is
\* rewritten, or cannot be opened, or is cut short by an error
WriteOutcomes == {"ok", "refused", "cut"}

Rewritten(d, b, rec, write) ==
    CASE write = "ok" -> [d EXCEPT !.json.recs[b] = rec]
      [] write = "cut" -> [d EXCEPT !.json = [ok |-> FALSE, recs |-> <<>>]]
      [] OTHER -> d

Saved(a, d) == [app |-> a, disk |-> d]

\* _maybe_persist_summary, line 1872-1914
_maybe_persist_summary(a, d, b, new_summary, copy, write) ==
    IF \/ ~a.auto_fill_summary
       \/ ~Truthy(new_summary)
       \/ ~NoSummaryYet(a.books[b].summary)
       \/ ~a.current_path
    THEN Saved(a, d)
    ELSE LET a1 == [a EXCEPT !.books[b] = BookOf(Strip(new_summary), TRUE)]
             d1 == Backup(d, copy)
         IN  IF ~d1.json.ok THEN Saved(a1, d1)
             ELSE IF NoSummaryYet(d1.json.recs[b].summary)
             THEN Saved(a1, Rewritten(d1, b, BookOf(a1.books[b].summary, TRUE), write))
             ELSE Saved(a1, d1)

\* _maybe_mark_summary_checked, line 1916-1952
_maybe_mark_summary_checked(a, d, b, copy, write) ==
    IF \/ ~a.auto_fill_summary
       \/ ~Blank(a.books[b].summary)
       \/ a.books[b].summary_checked
       \/ ~a.current_path
    THEN Saved(a, d)
    ELSE LET a1 == [a EXCEPT !.books[b].summary_checked = TRUE]
             d1 == Backup(d, copy)
         IN  IF ~d1.json.ok THEN Saved(a1, d1)
             ELSE Saved(a1, Rewritten(d1, b, [d1.json.recs[b] EXCEPT !.summary_checked = TRUE],
                                      write))

\* a summary is wanted whether or not one was looked for before
WantSummaryUnchecked(a, b) == Blank(a.books[b].summary) /\ a.auto_fill_summary

\* want_summary of _set_cover_label_for_isbn, line 2060-2065
WantSummaryOf(a, b) ==
    /\ Blank(a.books[b].summary)
    /\ ~a.books[b].summary_checked
    /\ a.auto_fill_summary

\* the call of fetch_async_extras, line 2069-2076
ExtrasRequest(a, b) ==
    [fn |-> "get_cover_and_summary", async |-> TRUE, isbn |-> Strip(BookIsbn(b)),
     size |-> <<"L">>, title |-> BookTitle(b), author |-> BookAuthor(b),
     force_refresh |-> FALSE, want_summary |-> WantSummaryOf(a, b), on_done |-> TRUE]

\* the worker threads not started yet
IdleTasks == {t \in Tasks : pc[t] = "idle"}

\* pick_random, line 1280-1292: b = 0 stands for the empty pool; else the
\* cover request for the book picked goes to a new worker thread
pick_random ==
    \E b \in BookIds \cup {0} :
        IF b = 0
        THEN /\ app' = [app EXCEPT !._random_current_book = 0]
             /\ ui' = [ui EXCEPT !.label = NoLabel, !.details = NoDetails]
             /\ UNCHANGED <<fs, fs0, req, pc, loc, net, cb, web, disk>>
        ELSE /\ IdleTasks # {}
             /\ LET t == CHOOSE i \in IdleTasks : \A j \in IdleTasks : i <= j
                    q == ExtrasRequest(app, b)
                IN  /\ req' = [req EXCEPT ![t] = q]
                    /\ Goto(t, "start", [InitLoc EXCEPT !.isbn = q.isbn, !.title = q.title,
                                                        !.author = q.author])
                    /\ ui' = [ui EXCEPT !.label = [text |-> "Loading cover", image |-> <<>>],
                                        !.closure[t] = b,
                                        !.details = [book |-> b, summary |-> app.books[b].summary]]
             /\ app' = [app EXCEPT !._random_current_book = b]
             /\ UNCHANGED <<fs, fs0, net, cb, web, disk>>

\* on_done_extras, line 1993-2057, on the worker thread: apply_on_ui_thread
\* is scheduled with after(0, ...)
on_done_extras(t) ==
    /\ pc[t] = "returned"
    /\ cb' = [cb EXCEPT ![t] = OnDone(@, loc[t].result)]
    /\ ui' = [ui EXCEPT !.after = Append(@, t)]
    /\ pc' = [pc EXCEPT ![t] = "done"]
    /\ UNCHANGED <<fs, fs0, req, loc, net, web, app, disk>>

\* line 2036-2055: what the label shows for the path of the result
LabelFor(path, opened) ==
    IF ~Truthy(path) \/ ~Exists(fs, path) THEN [text |-> "(No cover found)", image |-> <<>>]
    ELSE IF opened THEN [text |-> "", image |-> path]
    ELSE [text |-> "(Could not load cover)", image |-> <<>>]

\* apply_on_ui_thread, line 2003-2055, of the callback scheduled first
apply_on_ui_thread ==
    /\ ui.after # <<>>
    /\ \E copy \in CopyOutcomes, write \in WriteOutcomes, opened \in BOOLEAN :
          LET t == Head(ui.after)
              book == ui.closure[t]
              path == cb[t][1].path
              summary == cb[t][1].summary
              want_summary == req[t].want_summary
              s1 == IF Truthy(summary)
                    THEN _maybe_persist_summary(app, disk, book, summary, copy, write)
                    ELSE Saved(app, disk)
              s2 == IF want_summary /\ Blank(summary)
                    THEN _maybe_mark_summary_checked(s1.app, s1.disk, book, copy, write)
                    ELSE s1
          IN  /\ app' = s2.app
              /\ disk' = s2.disk
              /\ ui' = [ui EXCEPT
                          !.after = Tail(@),
                          !.details = IF want_summary
                                      THEN [book |-> book, summary |-> s2.app.books[book].summary]
                                      ELSE @,
                          !.label = LabelFor(path, opened)]
    /\ UNCHANGED <<fs, fs0, req, pc, loc, net, cb, web>>

\* the worker of a request whose cover is in the cache: the cache check and
\* the description by identifier
GuiStep(t) ==
    \/ StartCall(t)
    \/ OuterExists(t)
    \/ OuterSize(t)
    \/ AfterDownload(t)
    \/ DescIsbn(t)
    \/ DescIsbnWork(t)
    \/ on_done_extras(t)

GuiNext == pick_random \/ apply_on_ui_thread \/ (\E t \in Tasks : GuiStep(t))

\* a file is loaded, the covers of its books are in the cache, nothing is
\* picked yet
GuiInit ==
    /\ fs = [p \in {cache_path_isbn(BookIsbn(b), <<"L">>) : b \in BookIds} |-> OldBody]
    /\ fs0 = fs
    /\ req = [t \in Tasks |-> NoReq]
    /\ loc = [t \in Tasks |-> InitLoc]
    /\ pc = [t \in Tasks |-> "idle"]
    /\ net = [t \in Tasks |-> <<>>]
    /\ cb = [t \in Tasks |-> <<>>]
    /\ web = NoWeb
    /\ ui = NoUi
    /\ \E recs \in Libraries, auto \in BOOLEAN, bak \in {NoDisk.bak, OldBackup} :
          /\ disk = [json |-> [ok |-> TRUE, recs |-> recs], bak |-> bak, copy |-> "none"]
          /\ app = [auto_fill_summary |-> auto, current_path |-> TRUE,
                    books |-> parse_books(recs), _random_current_book |-> 0]

GuiSpec == GuiInit /\ [][GuiNext]_vars

(***************************************************************************)
(* "Clear cover cache" of the settings window (bookstats_gui.py), pressed  *)
(* while a worker resolves a request.                                      *)
(***************************************************************************)
\* os.listdir(cache_dir), line 624-625
ClearList ==
    /\ ui.clearing = "idle"
    /\ ui' = [ui EXCEPT !.clearing = "removing", !.listing = DOMAIN fs]
    /\ UNCHANGED <<fs, fs0, req, pc, loc, net, cb, web, app, disk>>

Removed(files, p) == [x \in DOMAIN files \ {p} |-> files[x]]

\* the loop, line 625-628: os.remove of the next file listed, if it is
\* still there; an error of os.remove ends the handler (line 630)
ClearRemove ==
    /\ ui.clearing = "removing"
    /\ IF ui.listing = {}
       THEN /\ ui' = [ui EXCEPT !.clearing = "cleared"]
            /\ fs' = fs
       ELSE \E p \in ui.listing, ok \in BOOLEAN :
               IF ~Exists(fs, p)
               THEN /\ ui' = [ui EXCEPT !.listing = @ \ {p}]
                    /\ fs' = fs
               ELSE IF ok
               THEN /\ ui' = [ui EXCEPT !.listing = @ \ {p}]
                    /\ fs' = Removed(fs, p)
               ELSE /\ ui' = [ui EXCEPT !.clearing = "error"]
                    /\ fs' = fs
    /\ UNCHANGED <<fs0, req, pc, loc, net, cb, web, app, disk>>

do_clear_cover_cache == ClearList \/ ClearRemove

ClearNext == (\E t \in Tasks : Step(t)) \/ do_clear_cover_cache

\* a request of the GUI on a worker (it uses fetch_async_extras) for a book
\* with an identifier, a title and an author, and the button
ClearInit ==
    /\ InitAsync
    /\ req[1].fn = "get_cover_and_summary" /\ req[1].want_summary
    /\ normalize_isbn(req[1].isbn) = Isbn13Req
    /\ Truthy(req[1].title) /\ Truthy(req[1].author)

ClearSpec == ClearInit /\ [][ClearNext]_vars

(***************************************************************************)
(* The module-level functions and the path methods called on their own:    *)
(* the arguments are the locals of the task, pc goes from "call" to "ret". *)
(***************************************************************************)
\* raw identifiers: digits, x in both cases, hyphen, space, a letter
RawChars == {"0", "9", "x", "X", "-", " ", "a"}

RawIsbns == UNION { [1..n -> RawChars] : n \in 0..MaxLen }

\* candidates: empty, too short, ISBN-10, ISBN-10 with a check letter,
\* 13 digits without the 978/979 prefix, hyphenated ISBN-13, ISBN-13
RawCandidates ==
    { <<>>, <<"1", "2", "3">>, Isbn10Doc,
      <<"0", "-", "8", "0", "4", "4", "-", "2", "9", "5", "7", "-", "x">>,
      <<"1", "2", "3", "4", "5", "6", "7", "8", "9", "0", "1", "2", "3">>,
      <<"9", "7", "8", "-", "0", "1", "4", "0", "4", "4", "9", "1", "3", "6">>,
      Isbn13Doc }

CandidateLists == UNION { [1..n -> RawCandidates] : n \in 0..MaxCands }

Call(fn) == [NoReq EXCEPT !.fn = fn]

\* normalize_isbn(isbn)
CallNormalizeIsbn(t) ==
    /\ pc[t] = "call" /\ req[t].fn = "normalize_isbn"
    /\ Goto(t, "ret", [loc[t] EXCEPT !.safe_isbn = normalize_isbn(loc[t].isbn)])
    /\ UNCHANGED <<fs, fs0, req, net, cb, outside>>

\* choose_best_isbn(*isbns)
CallChooseBestIsbn(t) ==
    /\ pc[t] = "call" /\ req[t].fn = "choose_best_isbn"
    /\ Goto(t, "ret", [loc[t] EXCEPT !.best = choose_best_isbn(loc[t].doc.isbn.items)])
    /\ UNCHANGED <<fs, fs0, req, net, cb, outside>>

FuncInit ==
    /\ fs = [p \in {} |-> OldBody]
    /\ fs0 = fs
    /\ \/ \E x \in RawIsbns :
             /\ req = [t \in Tasks |-> IF t = 1 THEN Call("normalize_isbn") ELSE NoReq]
             /\ loc = [t \in Tasks |-> IF t = 1 THEN [InitLoc EXCEPT !.isbn = x] ELSE InitLoc]
       \/ \E cs \in CandidateLists :
             /\ req = [t \in Tasks |-> IF t = 1 THEN Call("choose_best_isbn") ELSE NoReq]
             /\ loc = [t \in Tasks |->
                         IF t = 1 THEN [InitLoc EXCEPT !.doc = Doc(NoInt, ListVal(cs), NoStr, NoKeys)]
                         ELSE InitLoc]
    /\ pc = [t \in Tasks |-> IF t = 1 THEN "call" ELSE "idle"]
    /\ net = [t \in Tasks |-> <<>>]
    /\ cb = [t \in Tasks |-> <<>>]
    /\ NoApplication

FuncNext == \E t \in Tasks : CallNormalizeIsbn(t) \/ CallChooseBestIsbn(t)

FuncSpec == FuncInit /\ [][FuncNext]_vars

\* cache_path_isbn(isbn, size)
CallCachePathIsbn(t) ==
    /\ pc[t] = "call" /\ req[t].fn = "cache_path_isbn"
    /\ Goto(t, "ret", [loc[t] EXCEPT !.out_path = cache_path_isbn(loc[t].isbn, req[t].size)])
    /\ UNCHANGED <<fs, fs0, req, net, cb, outside>>

\* cache_path_coverid(cover_id, size)
CallCachePathCoverid(t) ==
    /\ pc[t] = "call" /\ req[t].fn = "cache_path_coverid"
    /\ Goto(t, "ret", [loc[t] EXCEPT !.out_path =
                          cache_path_coverid(loc[t].found.cover_id.n, req[t].size)])
    /\ UNCHANGED <<fs, fs0, req, net, cb, outside>>

\* cache_path_query(title, author, size)
CallCachePathQuery(t) ==
    /\ pc[t] = "call" /\ req[t].fn = "cache_path_query"
    /\ Goto(t, "ret", [loc[t] EXCEPT !.out_path =
                          cache_path_query(loc[t].title, loc[t].author, req[t].size)])
    /\ UNCHANGED <<fs, fs0, req, net, cb, outside>>

\* sizes as callers write them: the three classes, in either case or left out
PathSizes == { <<"S">>, <<"m">>, <<>> }

\* identifiers that normalize to "", "7", "12X" (twice)
PathIsbns == { <<"-">>, <<"7">>, <<"1", "2", "x">>, <<"1", "2", "X", " ">> }

PathCoverIds == {7, 12}

PathQueries ==
    { <<<<"D", "u", "n", "e">>, <<" ", "F", "H">>>>,
      <<<<"d", "u", "n", "e", " ">>, <<"f", "h">>>>,
      <<<<"D", "u", "n", "e">>, <<>>>> }

\* one call of a path method with its arguments
PathCalls ==
    { [q |-> [Call("cache_path_isbn") EXCEPT !.isbn = x, !.size = z],
       l |-> [InitLoc EXCEPT !.isbn = x]] : x \in PathIsbns, z \in PathSizes }
    \cup { [q |-> [Call("cache_path_coverid") EXCEPT !.size = z],
            l |-> [InitLoc EXCEPT !.found = [found |-> TRUE, cover_id |-> IntVal(n), isbn |-> <<>>]]] :
              n \in PathCoverIds, z \in PathSizes }
    \cup { [q |-> [Call("cache_path_query") EXCEPT !.title = ta[1], !.author = ta[2], !.size = z],
            l |-> [InitLoc EXCEPT !.title = ta[1], !.author = ta[2]]] :
              ta \in PathQueries, z \in PathSizes }

PathInit ==
    /\ fs = [p \in {} |-> OldBody]
    /\ fs0 = fs
    /\ \E c \in [Tasks -> PathCalls] :
          /\ req = [t \in Tasks |-> c[t].q]
          /\ loc = [t \in Tasks |-> c[t].l]
    /\ pc = [t \in Tasks |-> "call"]
    /\ net = [t \in Tasks |-> <<>>]
    /\ cb = [t \in Tasks |-> <<>>]
    /\ NoApplication

PathNext ==
    \E t \in Tasks : CallCachePathIsbn(t) \/ CallCachePathCoverid(t) \/ CallCachePathQuery(t)

PathSpec == PathInit /\ [][PathNext]_vars

(***************************************************************************)
(* The two orchestrators as functions of the request, the cache and the    *)
(* remote service, for a service that answers a URL the same way every     *)
(* time and a file system without errors: the path returned, the cache     *)
(* left, the cover and search requests made, in order.                     *)
(***************************************************************************)
\* the cover endpoint serves the image for the ids in web.ok and answers
\* web.otherwise for the others
Served(url) ==
    IF url.id \in web.ok
    THEN [exc |-> FALSE, status_code |-> 200, content |-> Body]
    ELSE web.otherwise

Outcome(path, cache, requests) == [path |-> path, cache |-> cache, net |-> requests]

\* open(out_path, "wb"), f.write(content)
Written(cache, p, content) ==
    [x \in DOMAIN cache \cup {p} |-> IF x = p THEN content ELSE cache[x]]

\* _download_to, line 192-210
_download_to(cache, url, out_path, allow_404, force_refresh) ==
    IF ~SkipCheck(force_refresh) /\ Exists(cache, out_path) /\ NonEmpty(cache, out_path)
    THEN Outcome(out_path, cache, <<>>)
    ELSE IF Received(Served(url), allow_404) = "write"
    THEN Outcome(out_path, Written(cache, out_path, Served(url).content), <<url>>)
    ELSE Outcome(<<>>, cache, <<url>>)

\* the cache check of a call site and the download that follows a miss
CachedOrDownload(q, cache, url, out_path) ==
    IF ~SkipCheck(q.force_refresh) /\ Exists(cache, out_path) /\ NonEmpty(cache, out_path)
    THEN Outcome(out_path, cache, <<>>)
    ELSE _download_to(cache, url, out_path, DownloadAllow404(q), DownloadForce(q))

\* the attempt by identifier, line 133-142 and 423-437
ByIsbn(q, cache, isbn) ==
    LET safe == normalize_isbn(isbn)
    IN  IF Truthy(safe)
        THEN CachedOrDownload(q, cache, openlibrary_url_isbn(safe, q.size),
                              cache_path_isbn(safe, q.size))
        ELSE Outcome(<<>>, cache, <<>>)

ByCoverId(q, cache, cover_id) ==
    CachedOrDownload(q, cache, openlibrary_url_coverid(cover_id, q.size),
                     cache_path_coverid(cover_id, q.size))

\* the outcome b of a later step, after the requests of the earlier ones
After(requests, b) == Outcome(b.path, b.cache, requests \o b.net)

SearchUrl == Url("search", <<>>, <<>>)

\* get_cover_path, line 133-167; the recursive call of line 165 has no
\* title and no author and returns None at line 146 when it misses
get_cover_path(q, cache) ==
    LET first == ByIsbn(q, cache, q.isbn)
        found == SearchBest(web.search)
        asked == Append(first.net, SearchUrl)
    IN  IF Truthy(first.path) THEN first
        ELSE IF (~Truthy(q.title) /\ ~Truthy(q.author)) \/ SearchSkipped(q.title, q.author)
        THEN first
        ELSE IF ~found.found THEN Outcome(<<>>, first.cache, asked)
        ELSE IF found.cover_id.isint
        THEN After(asked, ByCoverId(q, first.cache, found.cover_id.n))
        ELSE IF Truthy(found.isbn) THEN After(asked, ByIsbn(q, first.cache, found.isbn))
        ELSE Outcome(<<>>, first.cache, asked)

\* line 471-483: the identifiers of the selected document
ByDocIsbns(q, cache, doc) ==
    IF doc.isbn.islist /\ doc.isbn.items # <<>> /\ Truthy(choose_best_isbn(doc.isbn.items))
    THEN CachedOrDownload(q, cache,
                          openlibrary_url_isbn(choose_best_isbn(doc.isbn.items), q.size),
                          cache_path_isbn(choose_best_isbn(doc.isbn.items), q.size))
    ELSE Outcome(<<>>, cache, <<>>)

\* get_cover_and_summary without want_summary, line 423-483: the path of
\* the result
get_cover_and_summary(q, cache) ==
    LET first == ByIsbn(q, cache, q.isbn)
        doc == SearchExtras(web.search)
        asked == Append(first.net, SearchUrl)
        by_id == IF doc.cover_i.isint THEN ByCoverId(q, first.cache, doc.cover_i.n)
                 ELSE Outcome(<<>>, first.cache, <<>>)
    IN  IF Truthy(first.path) THEN first
        ELSE IF SearchSkipped(q.title, q.author) THEN first
        ELSE IF ~doc.isdict THEN Outcome(<<>>, first.cache, asked)
        ELSE IF Truthy(by_id.path) THEN After(asked, by_id)
        ELSE After(asked \o by_id.net, ByDocIsbns(q, by_id.cache, doc))

\* one orchestrator called on task t; the call is one step
Orchestrate(t, run) ==
    /\ fs' = run.cache
    /\ net' = [net EXCEPT ![t] = run.net]
    /\ Goto(t, "ret", [loc[t] EXCEPT !.result = [path |-> run.path, summary |-> <<>>]])
    /\ UNCHANGED <<fs0, req, cb, outside>>

CallGetCoverPath(t) ==
    /\ pc[t] = "call" /\ req[t].fn = "get_cover_path"
    /\ \E run \in {get_cover_path(req[t], fs)} : Orchestrate(t, run)

CallGetCoverAndSummary(t) ==
    /\ pc[t] = "call" /\ req[t].fn = "get_cover_and_summary"
    /\ \E run \in {get_cover_and_summary(req[t], fs)} : Orchestrate(t, run)

\* the ids for which the cover endpoint may have an image: the identifier
\* of the request, an identifier of the documents, a cover id
ServedIds == {Isbn13Req, Isbn13Doc, IntToStr(8)}

\* what it answers where it has none: not found, or a transport exception
Refusals == {r \in CoverResponses : r.exc \/ r.status_code = 404}

WebStates ==
    [fixed : {TRUE}, search : SearchResponses, ok : SUBSET ServedIds, otherwise : Refusals]

\* one of the two called without force_refresh and without want_summary
EquivInit ==
    /\ fs \in CacheStates
    /\ fs0 = fs
    /\ \E q \in Requests :
          /\ ~q.force_refresh /\ ~q.want_summary /\ q.async
          /\ req = [t \in Tasks |-> IF t = 1 THEN q ELSE NoReq]
          /\ loc = [t \in Tasks |->
                      IF t = 1 THEN [InitLoc EXCEPT !.isbn = q.isbn, !.title = q.title,
                                                    !.author = q.author]
                      ELSE InitLoc]
    /\ pc = [t \in Tasks |-> IF t = 1 THEN "call" ELSE "idle"]
    /\ net = [t \in Tasks |-> <<>>]
    /\ cb = [t \in Tasks |-> <<>>]
    /\ web \in WebStates
    /\ app = NoApp /\ disk = NoDisk /\ ui = NoUi

EquivNext == \E t \in Tasks : CallGetCoverPath(t) \/ CallGetCoverAndSummary(t)

EquivSpec == EquivInit /\ [][EquivNext]_vars

(***************************************************************************)
(* Vocabulary of the properties.                                           *)
(***************************************************************************)
\* the call of task t has returned its result
Finished(t) == pc[t] \in {"returned", "done"}

CoverEndpoints == {"cover_isbn", "cover_id"}

DescriptionEndpoints == {"edition_isbn", "work", "edition"}

\* the positions of the requests of task t to one of the endpoints eps
Calls(t, eps) == {i \in 1..Len(net[t]) : net[t][i].ep \in eps}

\* the normalized identifier of the request and its cache path
ReqIsbn(t) == normalize_isbn(req[t].isbn)

ReqPath(t) == cache_path_isbn(ReqIsbn(t), req[t].size)

\* a valid entry: the file exists and has nonzero size
Valid(files, p) == p \in DOMAIN files /\ Len(files[p]) > 0

\* the request of task t has an identifier whose entry was valid
CachedRequest(t) ==
    /\ req[t].fn # "none"
    /\ Truthy(ReqIsbn(t))
    /\ Valid(fs0, ReqPath(t))

(***************************************************************************)
(* C1.  A request without force_refresh whose identifier has a valid cache *)
(* entry is answered from the cache by both orchestrators: the result path *)
(* is the mapped path, no cover and no search request is issued, and the   *)
(* file keeps its content.                                                 *)
(***************************************************************************)
C1_CacheHitNoCoverFetch ==
    \A t \in Tasks :
        (CachedRequest(t) /\ ~req[t].force_refresh) =>
            /\ Calls(t, CoverEndpoints \cup {"search"}) = {}
            /\ Valid(fs, ReqPath(t)) /\ fs[ReqPath(t)] = fs0[ReqPath(t)]
            /\ Finished(t) => loc[t].result.path = ReqPath(t)

\* a cache hit of get_cover_and_summary that also looked the summary up
C1_Witness ==
    \E t \in Tasks :
        /\ CachedRequest(t) /\ ~req[t].force_refresh
        /\ req[t].fn = "get_cover_and_summary"
        /\ pc[t] = "done"
        /\ net[t] # <<>>

(***************************************************************************)
(* C2.  As claimed: with a valid cache entry and without force_refresh,    *)
(* get_cover_and_summary makes no network call of any kind, whatever       *)
(* want_summary is.                                                        *)
(***************************************************************************)
C2_Original ==
    \A t \in Tasks :
        (CachedRequest(t) /\ ~req[t].force_refresh
            /\ req[t].fn = "get_cover_and_summary") => net[t] = <<>>

(***************************************************************************)
(* C2, amended.  With a valid cache entry and without force_refresh,       *)
(* get_cover_and_summary makes no network call at all when want_summary is *)
(* false; when it is true it makes no cover and no search call, only the   *)
(* description lookup by identifier: the edition record, then at most one  *)
(* work record.                                                            *)
(***************************************************************************)
C2_CacheHitCalls ==
    \A t \in Tasks :
        (CachedRequest(t) /\ ~req[t].force_refresh
            /\ req[t].fn = "get_cover_and_summary") =>
            /\ ~req[t].want_summary => net[t] = <<>>
            /\ req[t].want_summary =>
                  /\ Len(net[t]) <= 2
                  /\ \A i \in 1..Len(net[t]) :
                        net[t][i].ep = (IF i = 1 THEN "edition_isbn" ELSE "work")
                  /\ Finished(t) => Len(net[t]) >= 1

\* a hit with want_summary that looked up the edition record and followed
\* its work reference
C2_Witness ==
    \E t \in Tasks :
        /\ CachedRequest(t) /\ ~req[t].force_refresh
        /\ req[t].fn = "get_cover_and_summary"
        /\ req[t].want_summary
        /\ Finished(t)
        /\ Len(net[t]) = 2
        /\ loc[t].result = [path |-> ReqPath(t), summary |-> <<"W">>]

(***************************************************************************)
(* C3.  As claimed: with force_refresh a valid cache entry is bypassed and *)
(* the cover is requested over HTTP, at every call site (identifier, cover *)
(* id, identifier found by the search) of both orchestrators.              *)
(***************************************************************************)
C3_Original ==
    \A t \in Tasks :
        (req[t].force_refresh /\ pc[t] = "after_dl"
            /\ Valid(fs0, loc[t].out_path)) =>
            \E i \in 1..Len(net[t]) : net[t][i] = loc[t].url

(***************************************************************************)
(* C4.  Whatever the responses, exceptions and file errors, neither        *)
(* orchestrator raises; the result has a path that is absent or a cache    *)
(* path, and a summary that is a string.                                   *)
(***************************************************************************)
IsCachePath(p) ==
    StartsWith(p, <<"i", "s", "b", "n", "_">>) \/ StartsWith(p, <<"o", "l", "i", "d", "_">>)

C4_NeverRaises ==
    \A t \in Tasks :
        /\ pc[t] # "raised"
        /\ Finished(t) =>
              /\ loc[t].result.path = <<>> \/ IsCachePath(loc[t].result.path)
              /\ loc[t].result.summary \in {<<>>, <<"A">>, <<"W">>, <<"E">>}

\* a call that returned absent after a write error left a partial file
C4_Witness ==
    \E t \in Tasks :
        /\ Finished(t)
        /\ loc[t].result.path = <<>>
        /\ Len(net[t]) >= 3
        /\ \E p \in DOMAIN fs : Len(fs[p]) = BodyLen - 1 /\ fs[p] # OldBody /\ p \notin DOMAIN fs0

C6_Original ==
    \A t \in Tasks :
        (loc[t].searched /\ loc[t].first_cover > 0) =>
            /\ \A i \in Calls(t, {"cover_id"}) :
                  net[t][i].id = IntToStr(loc[t].first_cover)
            /\ loc[t].depth = 0
            /\ loc[t].site = "retry" => IsPositiveCover(loc[t].doc)
            /\ (Finished(t) /\ loc[t].site = "coverid" /\ Truthy(loc[t].result.path)) =>
                  /\ loc[t].result.path =
                        cache_path_coverid(loc[t].first_cover, req[t].size)
                  /\ Cardinality(Calls(t, {"cover_id"})) <= 1

(***************************************************************************)
(* C7.  As claimed: once the cover of the selected document, which has a   *)
(* cover reference (a positive integer), has been requested by its cover   *)
(* id, no further cover request follows, and the result path is absent or  *)
(* the path mapped from that cover id; in both orchestrators.              *)
(***************************************************************************)
C7_Original ==
    \A t \in Tasks :
        \A i \in Calls(t, {"cover_id"}) :
            (IsPositiveCover(loc[t].doc) \/ loc[t].found.cover_id.n > 0) =>
            /\ \A j \in Calls(t, CoverEndpoints) : j <= i
            /\ Finished(t) =>
                  loc[t].result.path \in
                      {<<>>, <<"o", "l", "i", "d", "_">> \o net[t][i].id \o <<"_">>
                                 \o net[t][i].size \o JpgSuffix}

(***************************************************************************)
(* C8.  A resolution calls the search endpoint at most once, and           *)
(* get_cover_path recurses at most one level: the retry with the           *)
(* identifier that the search found does not search again when it misses.  *)
(***************************************************************************)
C8_SearchAtMostOnce ==
    \A t \in Tasks :
        /\ Cardinality(Calls(t, {"search"})) <= 1
        /\ loc[t].depth <= 1
        /\ loc[t].depth = 1 => Cardinality(Calls(t, {"search"})) = 1

\* get_cover_path retried with the identifier of a document, missed, and
\* returned absent with the cover request as its last request
C8_Witness ==
    \E t \in Tasks :
        /\ req[t].fn = "get_cover_path"
        /\ Finished(t)
        /\ loc[t].depth = 1
        /\ loc[t].result.path = <<>>
        /\ net[t] # <<>> /\ net[t][Len(net[t])].ep = "cover_isbn"

(***************************************************************************)
(* C9.  A request whose identifier normalizes to the empty string and      *)
(* whose title and author are empty makes no network call and returns      *)
(* {path: absent, summary: ""}, whatever want_summary and force_refresh.   *)
(***************************************************************************)
C9_NothingToLookUp ==
    \A t \in Tasks :
        (req[t].fn # "none" /\ ~Truthy(ReqIsbn(t))
            /\ req[t].title = <<>> /\ req[t].author = <<>>) =>
            /\ net[t] = <<>>
            /\ Finished(t) => loc[t].result = NoResult

\* get_cover_and_summary returned for an identifier of punctuation only,
\* with want_summary and force_refresh
C9_Witness ==
    \E t \in Tasks :
        /\ req[t].fn = "get_cover_and_summary"
        /\ Truthy(req[t].isbn) /\ ~Truthy(ReqIsbn(t))
        /\ req[t].title = <<>> /\ req[t].author = <<>>
        /\ req[t].want_summary /\ req[t].force_refresh
        /\ Finished(t)

(***************************************************************************)
(* C10.  As claimed: with want_summary, a description found by identifier  *)
(* ends the metadata chain: no work or edition record of a search document *)
(* is requested, and the summary returned is that description.             *)
(***************************************************************************)
C10_Original ==
    \A t \in Tasks :
        (req[t].fn = "get_cover_and_summary" /\ req[t].want_summary
            /\ Truthy(loc[t].isbn_summary)) =>
            /\ \A i \in Calls(t, {"search"}) :
                  \A j \in Calls(t, DescriptionEndpoints) : j < i
            /\ Finished(t) => loc[t].result.summary = loc[t].isbn_summary

(***************************************************************************)
(* C11.  As claimed: in get_cover_and_summary with want_summary and a      *)
(* title or an author, whenever the description found by identifier is     *)
(* empty, a search document is consulted for the summary, also when the    *)
(* cover came from the cache or from the cover-by-identifier request.      *)
(***************************************************************************)
C11_Original ==
    \A t \in Tasks :
        (/\ req[t].fn = "get_cover_and_summary" /\ req[t].want_summary
         /\ ~SearchSkipped(req[t].title, req[t].author)
         /\ Finished(t)
         /\ ~Truthy(loc[t].isbn_summary)
         /\ (loc[t].desc_ret = "ret" => ~Truthy(loc[t].result.summary))) =>
            Calls(t, {"search"}) # {}

(***************************************************************************)
(* C12.  Without want_summary get_cover_and_summary makes no request to    *)
(* the edition-by-identifier, work or edition endpoints, on any path, and  *)
(* the summary it returns is the empty string.                             *)
(***************************************************************************)
C12_NoSummaryNoMetadata ==
    \A t \in Tasks :
        (req[t].fn = "get_cover_and_summary" /\ ~req[t].want_summary) =>
            /\ Calls(t, DescriptionEndpoints) = {}
            /\ Finished(t) => loc[t].result.summary = <<>>

\* a call without want_summary that missed by identifier, searched, chose a
\* document with a work and an edition reference and found its cover
C12_Witness ==
    \E t \in Tasks :
        /\ req[t].fn = "get_cover_and_summary" /\ ~req[t].want_summary
        /\ Finished(t)
        /\ Calls(t, {"cover_isbn"}) # {} /\ Calls(t, {"search"}) # {}
        /\ Truthy(DocWorkKey(loc[t].doc)) /\ Truthy(DocEditionKey(loc[t].doc))
        /\ Truthy(loc[t].result.path)

\* the cover-by-identifier requests of worker t for the identifier of its
\* request, and those of all workers
CoverCallsFor(t) ==
    UNION { {i \in 1..Len(net[t]) : net[t][i].ep = "cover_isbn" /\ net[t][i].id = id} :
              id \in {ReqIsbn(t)} }

IdentifierCoverRequests == UNION { {<<t, i>> : i \in CoverCallsFor(t)} : t \in Tasks }

AllFinished == \A t \in Tasks : Finished(t)

(***************************************************************************)
(* C13.  Requests dispatched together for one identifier and size whose    *)
(* cache entry does not exist make, in every interleaving, at most one     *)
(* cover-by-identifier request each, and at least one in all once they     *)
(* have finished; nothing de-duplicates them.                              *)
(***************************************************************************)
C13_OneToNRequests ==
    /\ Cardinality(IdentifierCoverRequests) <= NTasks
    /\ \A t \in Tasks : Cardinality(CoverCallsFor(t)) <= 1
    /\ AllFinished => Cardinality(IdentifierCoverRequests) >= 1

\* every worker made the request, received the cover and returned its path
C13_Witness ==
    /\ AllFinished
    /\ \A t \in Tasks :
          /\ CoverCallsFor(t) # {}
          /\ loc[t].result.path = ReqPath(t)

(***************************************************************************)
(* C14.  When every worker resolving the identity has returned its mapped  *)
(* path, the file at that path holds exactly the complete remote body,     *)
(* whatever the interleaving of the workers' truncations and writes.       *)
(***************************************************************************)
C14_WritesIdempotent ==
    (AllFinished /\ \A t \in Tasks : loc[t].result.path = ReqPath(t)) =>
        \A t \in Tasks : Exists(fs, ReqPath(t)) /\ fs[ReqPath(t)] = Body

\* every worker downloaded the body, opened the file, wrote the body to its
\* end and returned the path
C14_Witness ==
    /\ AllFinished
    /\ \A t \in Tasks : loc[t].result.path = ReqPath(t) /\ loc[t].pos = BodyLen
    /\ \A t \in Tasks : fs[ReqPath(t)] = Body

(***************************************************************************)
(* C15.  normalize_isbn is idempotent, and its result holds only the       *)
(* characters 0-9 and X, for every input: empty, lowercase x, hyphens,     *)
(* spaces and other characters.                                            *)
(***************************************************************************)
C15_NormalizeIdempotent ==
    \A t \in Tasks :
        (req[t].fn = "normalize_isbn" /\ pc[t] = "ret") =>
            /\ normalize_isbn(loc[t].safe_isbn) = loc[t].safe_isbn
            /\ \A i \in 1..Len(loc[t].safe_isbn) :
                  loc[t].safe_isbn[i] \in Digits \cup {"X"}

\* an input with a lowercase x, a hyphen and a letter, of which X is left
C15_Witness ==
    \E t \in Tasks :
        /\ req[t].fn = "normalize_isbn" /\ pc[t] = "ret"
        /\ loc[t].isbn = <<"a", "-", "x">>
        /\ loc[t].safe_isbn = <<"X">>

(***************************************************************************)
(* C16.  choose_best_isbn returns the first candidate, in input order,     *)
(* whose normal form has 13 characters and starts with 978 or 979, if      *)
(* there is one, even after other valid candidates; otherwise the first    *)
(* whose normal form has 10 or 13 characters; otherwise "".  So every      *)
(* permutation of the input gives a 978/979 candidate when one exists.     *)
(***************************************************************************)
Candidates(t) == loc[t].doc.isbn.items

Modern(c) ==
    /\ Len(c) = 13
    /\ <<c[1], c[2], c[3]>> \in {<<"9", "7", "8">>, <<"9", "7", "9">>}

\* the normal form of the first candidate for which it satisfies P
FirstNormal(cands, P(_)) ==
    LET is == {i \in 1..Len(cands) : P(normalize_isbn(cands[i]))}
    IN  IF is = {} THEN <<>>
        ELSE normalize_isbn(cands[CHOOSE i \in is : \A j \in is : i <= j])

ValidLength(c) == Len(c) = 10 \/ Len(c) = 13

Reorderings(cands) ==
    { [i \in 1..Len(cands) |-> cands[p[i]]] :
        p \in { f \in [1..Len(cands) -> 1..Len(cands)] :
                  \A i, j \in 1..Len(cands) : f[i] = f[j] => i = j } }

C16_ChooseBest ==
    \A t \in Tasks :
        (req[t].fn = "choose_best_isbn" /\ pc[t] = "ret") =>
            /\ loc[t].best =
                  IF FirstNormal(Candidates(t), Modern) # <<>>
                  THEN FirstNormal(Candidates(t), Modern)
                  ELSE FirstNormal(Candidates(t), ValidLength)
            /\ FirstNormal(Candidates(t), Modern) # <<>> =>
                  \A p \in Reorderings(Candidates(t)) : Modern(choose_best_isbn(p))

\* an ISBN-10 and 13 digits without the prefix come before the hyphenated
\* ISBN-13 that is chosen
C16_Witness ==
    \E t \in Tasks :
        /\ req[t].fn = "choose_best_isbn" /\ pc[t] = "ret"
        /\ Len(Candidates(t)) = 3
        /\ Candidates(t)[1] = Isbn10Doc
        /\ Len(normalize_isbn(Candidates(t)[2])) = 13
        /\ loc[t].best = Isbn13Req
        /\ Candidates(t)[3] # loc[t].best

(***************************************************************************)
(* C17.  The cache paths are injective on (identity, size class): two      *)
(* calls of cache_path_isbn, cache_path_coverid or cache_path_query give   *)
(* the same path only for the same kind of identity, the same identity     *)
(* (normalized identifier, cover id, query key) and the same size class.   *)
(***************************************************************************)
PathIdentity(t) ==
    [kind |-> req[t].fn,
     isbn |-> IF req[t].fn = "cache_path_isbn" THEN normalize_isbn(loc[t].isbn) ELSE <<>>,
     cover_id |-> IF req[t].fn = "cache_path_coverid" THEN loc[t].found.cover_id.n ELSE 0,
     key |-> IF req[t].fn = "cache_path_query"
             THEN _stable_hash_key(loc[t].title, loc[t].author) ELSE <<>>,
     size |-> SizeClass(req[t].size)]

PathCalled(t) ==
    /\ req[t].fn \in {"cache_path_isbn", "cache_path_coverid", "cache_path_query"}
    /\ pc[t] = "ret"

C17_PathsInjective ==
    \A t, u \in Tasks :
        (PathCalled(t) /\ PathCalled(u) /\ loc[t].out_path = loc[u].out_path) =>
            PathIdentity(t) = PathIdentity(u)

\* the identifier "7" and the cover id 7 in one size class, under two paths
C17_Witness ==
    \E t, u \in Tasks :
        /\ PathCalled(t) /\ PathCalled(u)
        /\ req[t].fn = "cache_path_isbn" /\ req[u].fn = "cache_path_coverid"
        /\ normalize_isbn(loc[t].isbn) = IntToStr(loc[u].found.cover_id.n)
        /\ req[t].size = <<"m">> /\ req[u].size = <<"m">>
        /\ loc[t].out_path # loc[u].out_path
        /\ loc[t].out_path = <<"i", "s", "b", "n", "_", "7", "_", "M", ".", "j", "p", "g">>

(***************************************************************************)
(* C18.  As claimed: a resolution through get_cover_and_summary makes at   *)
(* most five network calls, on every path.                                 *)
(***************************************************************************)
C18_Original ==
    \A t \in Tasks :
        req[t].fn = "get_cover_and_summary" => Len(net[t]) <= 5

(***************************************************************************)
(* C18, amended.  A resolution through get_cover_and_summary makes at most *)
(* eight network calls: at most three cover requests, one search and four  *)
(* description requests.  It makes at most five when the request has no    *)
(* identifier, and at most four without want_summary.                      *)
(***************************************************************************)
C18_AtMostEightCalls ==
    \A t \in Tasks :
        req[t].fn = "get_cover_and_summary" =>
            /\ Len(net[t]) <= 8
            /\ Cardinality(Calls(t, CoverEndpoints)) <= 3
            /\ Cardinality(Calls(t, {"search"})) <= 1
            /\ Cardinality(Calls(t, DescriptionEndpoints)) <= 4
            /\ ~Truthy(ReqIsbn(t)) => Len(net[t]) <= 5
            /\ ~req[t].want_summary => Len(net[t]) <= 4

\* eight calls: cover by identifier, edition by identifier, its work, search,
\* the document's work, its edition, cover by id, cover by the document's
\* identifier
C18_Witness ==
    \E t \in Tasks :
        /\ req[t].fn = "get_cover_and_summary"
        /\ Finished(t)
        /\ Len(net[t]) = 8
        /\ [i \in 1..8 |-> net[t][i].ep] =
              <<"cover_isbn", "edition_isbn", "work", "search", "work", "edition",
                "cover_id", "cover_isbn">>

(***************************************************************************)
(* C19.  As claimed: when no document of the search response has a cover   *)
(* reference, the first document with a non-empty identifier list is the   *)
(* one chosen: every cover request after the search is by the best         *)
(* identifier of that list, and when the list has no valid identifier no   *)
(* cover request follows and the path is absent; in get_cover_path as in   *)
(* get_cover_and_summary.                                                  *)
(***************************************************************************)
C19_Original ==
    \A t \in Tasks :
        (loc[t].searched /\ loc[t].first_ids.islist) =>
            /\ \A j \in Calls(t, {"search"}) :
                  \A i \in Calls(t, CoverEndpoints) :
                      i > j => /\ net[t][i].ep = "cover_isbn"
                               /\ net[t][i].id = choose_best_isbn(loc[t].first_ids.items)
            /\ (Finished(t) /\ ~Truthy(choose_best_isbn(loc[t].first_ids.items))) =>
                  loc[t].result.path = <<>>

\* _download_to has returned to its caller, having found no valid entry at
\* the destination or having been told to refresh
Downloaded(t) ==
    /\ pc[t] = "after_dl"
    /\ loc[t].dl_force \/ ~Valid(fs0, loc[t].out_path)

\* status 200 with a body
OkBody(r) == ~r.exc /\ r.status_code = 200 /\ r.content # <<>>

(***************************************************************************)
(* C20.  As claimed: without a valid entry at the destination, or with     *)
(* force_refresh, _download_to returns the destination path if and only if *)
(* the response is a success with a body, and the file then holds the full *)
(* body; in every other case it returns absent.                            *)
(***************************************************************************)
C20_Original ==
    \A t \in Tasks :
        Downloaded(t) =>
            /\ loc[t].path = loc[t].out_path <=> OkBody(loc[t].r)
            /\ loc[t].path = loc[t].out_path =>
                  Exists(fs, loc[t].out_path) /\ fs[loc[t].out_path] = loc[t].r.content
            /\ loc[t].path # loc[t].out_path => loc[t].path = <<>>

(***************************************************************************)
(* C20, amended.  Without a valid entry at the destination, or with        *)
(* force_refresh, _download_to returns the destination path if and only if *)
(* the response is a success with a body and the file was opened and       *)
(* written without an error, and the file then holds the full body; for    *)
(* 404, another status, an empty body, a transport exception or a file     *)
(* error it returns absent.                                                *)
(***************************************************************************)
C20_DownloadResult ==
    \A t \in Tasks :
        Downloaded(t) =>
            /\ loc[t].path = loc[t].out_path <=> (OkBody(loc[t].r) /\ ~loc[t].io_error)
            /\ loc[t].path = loc[t].out_path =>
                  Exists(fs, loc[t].out_path) /\ fs[loc[t].out_path] = loc[t].r.content
            /\ loc[t].path # loc[t].out_path => loc[t].path = <<>>
            /\ loc[t].io_error => OkBody(loc[t].r)

\* a forced download that replaced a valid entry by the body
C20_Witness ==
    \E t \in Tasks :
        /\ Downloaded(t)
        /\ loc[t].dl_force /\ Valid(fs0, loc[t].out_path)
        /\ loc[t].path = loc[t].out_path
        /\ fs[loc[t].out_path] = Body /\ fs0[loc[t].out_path] # Body

\* the cover request of the current site of task t has been issued
Requested(t) == \E i \in 1..Len(net[t]) : net[t][i] = loc[t].url

(***************************************************************************)
(* C21.  At every call site, without force_refresh, the entry is a hit     *)
(* (the path is returned without a cover request) if and only if the file  *)
(* exists and has nonzero size.  A zero-length file at the mapped path is  *)
(* a miss: the cover is requested and, when that succeeds, the file holds  *)
(* the nonempty body.                                                      *)
(***************************************************************************)
C21_HitIffNonEmptyFile ==
    \A t \in Tasks :
        pc[t] = "after_dl" =>
            LET p == loc[t].out_path
            IN  /\ ~req[t].force_refresh => (Requested(t) <=> ~Valid(fs0, p))
                /\ ~Requested(t) => (loc[t].path = p /\ fs[p] = fs0[p])
                /\ (Exists(fs0, p) /\ fs0[p] = <<>>) =>
                      /\ Requested(t)
                      /\ loc[t].path = p => (fs[p] = Body /\ Len(fs[p]) > 0)

\* the empty file at the path of the request's identifier, replaced by the
\* body that the cover request returned
C21_Witness ==
    \E t \in Tasks :
        /\ pc[t] = "after_dl" /\ ~req[t].force_refresh
        /\ loc[t].out_path = ReqPath(t)
        /\ Exists(fs0, ReqPath(t)) /\ fs0[ReqPath(t)] = <<>>
        /\ Requested(t)
        /\ loc[t].path = ReqPath(t) /\ fs[ReqPath(t)] = Body

\* data is a strict, nonempty prefix of the image
StrictPrefix(data) ==
    /\ Len(data) > 0 /\ Len(data) < Len(Body)
    /\ data = SubSeq(Body, 1, Len(data))

\* task u has opened the file at path p and written only a part of the body
MidWrite(u, p) ==
    /\ pc[u] = "dl_write" /\ loc[u].out_path = p
    /\ loc[u].pos > 0 /\ loc[u].pos < Len(loc[u].r.content)

(***************************************************************************)
(* C22.  Nothing protects a reader from a partial write: a cache check     *)
(* that finds the file with nonzero size takes the path as found, whatever *)
(* the content of the file and whoever is writing it.  So the interleaving *)
(* exists in which a task returns a path whose file holds a strict,        *)
(* nonempty prefix of the body that another task is still writing.         *)
(***************************************************************************)
C22_NoPartialWriteProtection ==
    [][\A t \in Tasks :
          (/\ pc[t] \in {"outer_size", "dl_size"}
           /\ pc'[t] # pc[t]
           /\ Valid(fs, loc[t].out_path)) =>
              (pc'[t] = "after_dl" /\ loc'[t].path = loc[t].out_path)]_vars

\* a task has returned the path of its identifier, read from the cache,
\* while the other task is between two writes to that file
C22_Witness ==
    \E t, u \in Tasks :
        /\ t # u
        /\ pc[t] = "returned"
        /\ net[t] = <<>>
        /\ loc[t].result.path = ReqPath(t)
        /\ ReqPath(u) = ReqPath(t)
        /\ MidWrite(u, ReqPath(t))
        /\ StrictPrefix(fs[ReqPath(t)])

\* an identifier in normal form with 10 or 13 characters
IsIsbnIdentity(x) == normalize_isbn(x) = x /\ Len(x) \in {10, 13}

\* the decimal text of a positive integer
IsPositiveText(x) == x # <<>> /\ x[1] \in Digits \ {"0"}

(***************************************************************************)
(* C23.  As claimed: every identity from which a resolution derives a      *)
(* cache path or a cover URL is an identifier in normal form of 10 or 13   *)
(* characters or a cover id that is a positive integer, whether it comes   *)
(* from the caller or from a search document.                              *)
(***************************************************************************)
C23_Original ==
    \A t \in Tasks :
        req[t].fn \in {"get_cover_path", "get_cover_and_summary"} =>
            /\ \A i \in Calls(t, {"cover_isbn"}) : IsIsbnIdentity(net[t][i].id)
            /\ \A i \in Calls(t, {"cover_id"}) : IsPositiveText(net[t][i].id)
            /\ loc[t].site = "isbn" => IsIsbnIdentity(loc[t].safe_isbn)
            /\ loc[t].site = "retry" => IsIsbnIdentity(loc[t].best)
            /\ loc[t].site = "coverid" =>
                  IF req[t].fn = "get_cover_path" THEN loc[t].found.cover_id.n > 0
                  ELSE loc[t].doc.cover_i.n > 0

\* the file at path p is as it was when the request was made
Untouched(p) ==
    IF Exists(fs0, p) THEN Exists(fs, p) /\ fs[p] = fs0[p] ELSE ~Exists(fs, p)

(***************************************************************************)
(* C28.  As claimed: a cover fetch that returns absent leaves the cache    *)
(* unchanged.  Whatever made _download_to fail (404, another status, an    *)
(* empty body, a transport exception, an error while opening or writing    *)
(* the file), a file already at the destination keeps its content and no   *)
(* file is created, also with force_refresh and a valid entry.             *)
(***************************************************************************)
C28_Original ==
    \A t \in Tasks :
        (pc[t] = "after_dl" /\ loc[t].path = <<>>) => Untouched(loc[t].out_path)

\* the cache path mapped from the identity of the call site that task t
\* reached last
SitePath(t) ==
    CASE loc[t].site = "isbn" -> cache_path_isbn(loc[t].safe_isbn, req[t].size)
      [] loc[t].site = "retry" -> cache_path_isbn(loc[t].best, req[t].size)
      [] loc[t].site = "coverid" ->
            cache_path_coverid(IF req[t].fn = "get_cover_path" THEN loc[t].found.cover_id.n
                               ELSE loc[t].doc.cover_i.n, req[t].size)
      [] OTHER -> <<>>

\* the cover URL of that identity
SiteUrl(t) ==
    CASE loc[t].site = "isbn" -> openlibrary_url_isbn(loc[t].safe_isbn, req[t].size)
      [] loc[t].site = "retry" -> openlibrary_url_isbn(loc[t].best, req[t].size)
      [] loc[t].site = "coverid" ->
            openlibrary_url_coverid(IF req[t].fn = "get_cover_path" THEN loc[t].found.cover_id.n
                                    ELSE loc[t].doc.cover_i.n, req[t].size)
      [] OTHER -> NoUrl

(***************************************************************************)
(* C29.  With a single task, every path that get_cover_path or             *)
(* get_cover_and_summary returns is, when it returns, the path of a file   *)
(* that exists and has nonzero size, and it is the cache path mapped from  *)
(* the identity (identifier or cover id) by which the cover was resolved:  *)
(* the file is the entry found there, or the body of the cover request     *)
(* made for that identity.                                                 *)
(***************************************************************************)
C29_ReturnedPathIsValidEntry ==
    \A t \in Tasks :
        (/\ req[t].fn \in {"get_cover_path", "get_cover_and_summary"}
         /\ pc[t] = "returned"
         /\ Truthy(loc[t].result.path)) =>
            LET p == loc[t].result.path
                covers == Calls(t, CoverEndpoints)
            IN  /\ Valid(fs, p)
                /\ p = SitePath(t)
                /\ \/ /\ fs[p] = Body
                      /\ covers # {}
                      /\ \A i \in covers : (\A j \in covers : j <= i) => net[t][i] = SiteUrl(t)
                   \/ /\ Valid(fs0, p) /\ fs[p] = fs0[p]
                      /\ \A i \in covers : net[t][i] # SiteUrl(t)

\* get_cover_and_summary missed by identifier and by cover id, and returns
\* the path of the cover downloaded by the identifier of the document
C29_Witness ==
    \E t \in Tasks :
        /\ req[t].fn = "get_cover_and_summary" /\ pc[t] = "returned"
        /\ loc[t].site = "retry"
        /\ Cardinality(Calls(t, CoverEndpoints)) = 3
        /\ loc[t].result.path = cache_path_isbn(Isbn13Doc, req[t].size)
        /\ fs[loc[t].result.path] = Body

\* what the other orchestrator does with the request of task t, the cache
\* as it was and the same remote service
Other(t) ==
    IF req[t].fn = "get_cover_path" THEN get_cover_and_summary(req[t], fs0)
    ELSE get_cover_path(req[t], fs0)

(***************************************************************************)
(* C30.  As claimed: for every identifier, title, author, cache and        *)
(* assignment of outcomes to the network calls, get_cover_path and         *)
(* get_cover_and_summary (without force_refresh and want_summary) return   *)
(* the same path, make the same cover and search requests in the same      *)
(* order and leave the cache in the same state.                            *)
(***************************************************************************)
C30_Original ==
    \A t \in Tasks :
        (pc[t] = "ret" /\ req[t].fn \in {"get_cover_path", "get_cover_and_summary"}) =>
            \A other \in {Other(t)} :
                /\ loc[t].result.path = other.path
                /\ net[t] = other.net
                /\ fs = other.cache

(***************************************************************************)
(* C26.  As claimed: when the cache is cleared while a worker resolves a   *)
(* request, also between the existence check and the size check of one     *)
(* path, the worker ends without an unhandled exception and the callback   *)
(* is invoked once, not more, and not less once the worker has ended.      *)
(***************************************************************************)
C26_Original ==
    \A t \in Tasks :
        /\ pc[t] # "raised"
        /\ Len(cb[t]) <= 1
        /\ pc[t] = "done" => Len(cb[t]) = 1

\* no cover request of the random-pick panel is in flight: every worker
\* started has returned and every scheduled callback has been applied
Quiet ==
    /\ ui.after = <<>>
    /\ \A t \in Tasks : pc[t] \in {"idle", "done"}

\* C27: when the requests dispatched in succession for the label of the
\* random-pick panel have all completed, in whatever order their callbacks
\* ran, the label shows the cover (or a text in its place) and the details
\* text of the book picked last, never those of an earlier pick.
C27_Original ==
    (Quiet /\ app._random_current_book # 0)
        => /\ ui.label.image \in {<<>>, cache_path_isbn(BookIsbn(app._random_current_book), <<"L">>)}
           /\ ui.details.book = app._random_current_book

\* the callback of task t has run on the UI thread
Applied(t) == pc[t] = "done" /\ \A i \in 1..Len(ui.after) : ui.after[i] # t

\* a request for book b that wanted a summary has completed without one
CompletedEmpty(b) ==
    \E t \in Tasks :
        /\ ui.closure[t] = b
        /\ req[t].want_summary
        /\ Applied(t)
        /\ ~Truthy(cb[t][1].summary)

\* pick_random starts task t for book b in this step
Dispatches(t, b) == pc[t] = "idle" /\ pc'[t] = "start" /\ ui'.closure[t] = b

\* C25: once a request with want_summary for a book has completed with an
\* empty summary, the book is marked summary_checked; every request
\* dispatched for it afterwards has want_summary false and contacts no
\* description endpoint; and summary_checked never goes back from true to
\* false.
C25_CheckedOnceNotAskedAgain ==
    /\ [](\A b \in BookIds : CompletedEmpty(b) => app.books[b].summary_checked)
    /\ [][\A b \in BookIds, t \in Tasks :
            (CompletedEmpty(b) /\ Dispatches(t, b)) => ~req'[t].want_summary]_vars
    /\ [](\A t \in Tasks :
            (pc[t] # "idle" /\ ~req[t].want_summary) => Calls(t, DescriptionEndpoints) = {})
    /\ [][\A b \in BookIds :
            app.books[b].summary_checked => app'.books[b].summary_checked]_vars

\* a request for a book the loaded file had as not looked up completed with
\* an empty summary, and a later request for the same book went through
\* without asking for one
C25_Witness ==
    \E b \in BookIds, t \in Tasks :
        /\ CompletedEmpty(b)
        /\ app.books[b].summary_checked
        /\ disk.bak.exists /\ disk.bak.json.ok /\ b \in DOMAIN disk.bak.json.recs
        /\ ~disk.bak.json.recs[b].summary_checked
        /\ ui.closure[t] = b /\ ~req[t].want_summary /\ Applied(t)
        /\ Calls(t, DescriptionEndpoints) = {}

\* the step leaves the summary the book has in memory
KeepsBookSummary(b) == app'.books[b].summary = app.books[b].summary

\* the step leaves the file readable with the summary of the record of b
KeepsRecordSummary(b) ==
    disk'.json.ok /\ disk'.json.recs[b].summary = disk.json.recs[b].summary

\* the step writes to the JSON file
WritesFile == disk'.json # disk.json

====
